---- MODULE Spec2Model ----
(***************************************************************************)
(* Model of DocumentationLLM (src/src/documentationllm):                    *)
(*   - agents/semantic_linking_agent.py: _extract_sections, the section     *)
(*     partitioner, stepped one content item at a time (SpecPartition);     *)
(*     run / process_document / _process_section / _parse_openai_response,  *)
(*     the batch over the parsed documents with a nondeterministic          *)
(*     Reasoning Service (Spec, and SpecTerminating with fairness);         *)
(*   - agents/parsing_agent.py: MarkdownParser._extract_sections, the       *)
(*     heading reducer, stepped one tag at a time (SpecReducer);            *)
(*     MarkdownParser.parse, ParsingAgent.process_file / process_files /    *)
(*     save_results / run over a small file system, followed by main's      *)
(*     hand-over to the semantic-linking stage (SpecPipeline);              *)
(*   - utils/cache.py: SemanticCache instances sharing one cache file,      *)
(*     with a clock that advances in half-TTL ticks (SpecCache);            *)
(*   - ../utils/version_control.py: VersionControl.create_snapshot and      *)
(*     rollback on a fresh base directory (SpecVersions).                   *)
(* Python dicts are functions over the set of their keys; a missing key is  *)
(* a key outside DOMAIN, so item["type"] on a dict without it raises.       *)
(* Each specification holds the variables of the other parts fixed.         *)
(***************************************************************************)
EXTENDS Integers, Sequences, FiniteSets, TLC

VARIABLES
    \* -- SemanticLinkingAgent.run ----------------------------------------
    context,            \* self.context: the pipeline's shared dict
    pc,                 \* position of run: start, loop, sections, done, raised
    linked_documents,   \* run's local list linked_documents
    total_documents,    \* run's local total_documents
    doc_index,          \* i - 1 of the for loop of run: documents consumed
    sections,           \* process_document's local sections
    linked_sections,    \* process_document's local linked_sections
    section_index,      \* sections of the current document consumed
    api_calls,          \* log of Reasoning Service calls: document, section, raised
    last_call,          \* the latest Reasoning Service call and what became of it
    doc_raised,         \* indices of the documents whose process_document raised
    \* -- SemanticLinkingAgent._extract_sections, item by item ------------
    p_pc,               \* idle, loop, done, raised
    p_items,            \* parsed_document["content"]
    p_index,            \* items consumed so far
    p_sections,         \* local sections
    p_current,          \* local current_section
    \* -- ParsingAgent._extract_sections, tag by tag ----------------------
    r_pc,               \* idle, loop, done
    r_tags,             \* soup.find_all([...]): the tags in document order
    r_index,            \* tags consumed so far
    r_nodes,            \* the DocumentSection objects created, by identity
    r_sections,         \* local sections: identities of the top-level list
    r_current,          \* local current_section: an identity, 0 for None
    \* -- main and ParsingAgent.run / process_files ------------------------
    m_pc,               \* position of main: idle, download, parsing, files,
                        \* linking, exited
    f_index,            \* files of process_files' for loop consumed
    processed_docs,     \* process_files' local dict, in insertion order
    f_calls,            \* log of the process_file calls: path and outcome
    exit_status,        \* <<>> while main runs, then <<its return value>>
    \* -- SemanticCache instances on one cache directory -------------------
    c_now,              \* datetime.now(), in hours
    c_live,             \* the instances constructed so far
    c_memory,           \* self.memory_cache of each instance
    c_disk,             \* semantic_cache.json: whether it exists, its data
    c_written,          \* per (text, code): the latest set, who has seen it
    c_sets,             \* number of set calls so far
    c_last,             \* the call of get just made, if the last call was one
    \* -- VersionControl on one base directory ------------------------------
    v_max,              \* self.max_versions
    v_versions,         \* self.versions: current_version and snapshots
    v_dirs,             \* the version directories that exist under base_dir
    v_now,              \* datetime.now(), in seconds
    v_creates,          \* number of create_snapshot calls so far
    v_last              \* the call just made and what it returned

runVars == <<context, pc, linked_documents, total_documents, doc_index, sections,
             linked_sections, section_index, api_calls, last_call,
             doc_raised>>
partVars == <<p_pc, p_items, p_index, p_sections, p_current>>
reducerVars == <<r_pc, r_tags, r_index, r_nodes, r_sections, r_current>>
vars == <<context, pc, linked_documents, total_documents, doc_index, sections,
          linked_sections, section_index, api_calls, last_call,
          doc_raised,
          p_pc, p_items, p_index, p_sections, p_current,
          r_pc, r_tags, r_index, r_nodes, r_sections, r_current,
          m_pc, f_index, processed_docs, f_calls, exit_status,
          c_now, c_live, c_memory, c_disk, c_written, c_sets, c_last,
          v_max, v_versions, v_dirs, v_now, v_creates, v_last>>
mainVars == <<m_pc, f_index, processed_docs, f_calls, exit_status>>
cacheVars == <<c_now, c_live, c_memory, c_disk, c_written, c_sets, c_last>>
vcVars == <<v_max, v_versions, v_dirs, v_now, v_creates, v_last>>

\* what each component leaves alone
notRunVars == <<partVars, reducerVars, mainVars, cacheVars, vcVars>>
notPartVars == <<runVars, reducerVars, mainVars, cacheVars, vcVars>>
notReducerVars == <<runVars, partVars, mainVars, cacheVars, vcVars>>
notCacheVars == <<runVars, partVars, reducerVars, mainVars, vcVars>>
notVcVars == <<runVars, partVars, reducerVars, mainVars, cacheVars>>

----------------------------------------------------------------------------
(* Bounds *)

MaxDocs == 2        \* longest parsed_documents list
MaxItems == 4       \* longest content stream given to the partitioner alone
MaxTags == 4        \* longest tag stream given to the parser's reducer alone
MaxFiles == 2       \* longest documentation_files list
MaxSets == 2        \* most calls of SemanticCache.set
MaxTicks == 2       \* most advances of the clock
MaxVersions == 2    \* largest max_versions
MaxCreates == 3     \* most calls of create_snapshot
MaxSeconds == 2     \* most seconds that pass

----------------------------------------------------------------------------
(* Python values *)

EmptyDict == [key \in {} |-> key]

\* d[k] = v on a dict
Put(d, k, v) == [key \in DOMAIN d \cup {k} |-> IF key = k THEN v ELSE d[key]]

\* d.get(k, default)
Get(d, k, default) == IF k \in DOMAIN d THEN d[k] ELSE default

\* None, where a string is expected
NoneValue == "<None>"

IsStr(v) == v # NoneValue

\* a str object, where a dict is expected
PyStr(s) == [tag \in {"<str>"} |-> s]

\* the value has the methods of a dict (.get)
IsDict(v) == "<str>" \notin DOMAIN v

\* a dict whose order matters: its items in insertion order
Entry(k, v) == [dict_key |-> k, dict_value |-> v]
IsEntry(e) == "dict_key" \in DOMAIN e

\* d[k] = v on such a dict: a new key goes last, an old one keeps its place
DictSet(d, k, v) ==
    IF \E n \in 1..Len(d) : d[n].dict_key = k
    THEN [n \in 1..Len(d) |-> IF d[n].dict_key = k THEN Entry(k, v) ELSE d[n]]
    ELSE Append(d, Entry(k, v))

\* what a for loop over the value sees at one position: the element of a
\* list, the key of a dict
IterItem(e) == IF IsEntry(e) THEN PyStr(e.dict_key) ELSE e

\* all sequences over S of length at most n
SeqsUpTo(S, n) == UNION {[1..m -> S] : m \in 0..n}

----------------------------------------------------------------------------
(* Content items of a parsed document *)

TextItem(c) == [type |-> "text", content |-> c]
CodeItem(c, lang) == [type |-> "code", content |-> c, language |-> lang]

TextA == TextItem("A")
TextB == TextItem("B")
TextNone == TextItem(NoneValue)                     \* content is not a string
Code1 == CodeItem("c1", "python")
Code2 == [type |-> "code", content |-> "c2"]        \* no language, no metadata
ImageItem == [type |-> "image", content |-> "i"]    \* neither text nor code
NoTypeItem == [content |-> "x"]                     \* item["type"] raises KeyError

PartitionItems == {TextA, TextB, Code1, Code2, ImageItem, NoTypeItem}

----------------------------------------------------------------------------
(* _extract_sections: one iteration of its for loop *)

NewSection == [text |-> <<>>, code |-> <<>>]

FlushesNever(current) == FALSE

\* current_section["code"] and current_section["text"]
FlushesOnText(current) == current.code # <<>> /\ current.text # <<>>

\* the dict appended to current_section["code"]
CodeEntry(item) ==
    [content |-> item["content"],
     language |-> Get(item, "language", ""),
     metadata |-> Get(item, "metadata", EmptyDict)]

\* the state of the loop after one item: raised on a KeyError
ItemStepAppendFirst(secs, current, item) ==
    IF "type" \notin DOMAIN item THEN [raised |-> TRUE, sections |-> secs, current |-> current]
    ELSE IF item["type"] = "text" THEN
        IF "content" \notin DOMAIN item
        THEN [raised |-> TRUE, sections |-> secs, current |-> current]
        ELSE LET appended == [current EXCEPT !.text = Append(@, item["content"])]
             IN  IF FlushesOnText(current)
                 THEN [raised |-> FALSE, sections |-> Append(secs, appended),
                       current |-> NewSection]
                 ELSE [raised |-> FALSE, sections |-> secs, current |-> appended]
    ELSE IF item["type"] = "code" THEN
        IF "content" \notin DOMAIN item
        THEN [raised |-> TRUE, sections |-> secs, current |-> current]
        ELSE [raised |-> FALSE, sections |-> secs,
              current |-> [current EXCEPT !.code = Append(@, CodeEntry(item))]]
    ELSE [raised |-> FALSE, sections |-> secs, current |-> current]

ItemStep(secs, current, item) ==
    IF "type" \notin DOMAIN item THEN [raised |-> TRUE, sections |-> secs, current |-> current]
    ELSE IF item["type"] = "text" THEN
        LET flush == FlushesOnText(current)
            secs1 == IF flush THEN Append(secs, current) ELSE secs
            cur1 == IF flush THEN NewSection ELSE current
        IN  IF "content" \notin DOMAIN item
            THEN [raised |-> TRUE, sections |-> secs1, current |-> cur1]
            ELSE [raised |-> FALSE, sections |-> secs1,
                  current |-> [cur1 EXCEPT !.text = Append(@, item["content"])]]
    ELSE IF item["type"] = "code" THEN
        IF "content" \notin DOMAIN item
        THEN [raised |-> TRUE, sections |-> secs, current |-> current]
        ELSE [raised |-> FALSE, sections |-> secs,
              current |-> [current EXCEPT !.code = Append(@, CodeEntry(item))]]
    ELSE [raised |-> FALSE, sections |-> secs, current |-> current]

\* after the loop: a non-empty current_section is appended
FinalEmitTextOnly(secs, current) ==
    IF current.text # <<>> THEN Append(secs, current) ELSE secs

FinalEmit(secs, current) ==
    IF current.text # <<>> \/ current.code # <<>> THEN Append(secs, current) ELSE secs

RECURSIVE ExtractLoop(_, _, _, _)
ExtractLoop(items, n, secs, current) ==
    IF n > Len(items) THEN [raised |-> FALSE, sections |-> FinalEmit(secs, current)]
    ELSE LET st == ItemStep(secs, current, items[n])
         IN  IF st.raised THEN [raised |-> TRUE, sections |-> <<>>]
             ELSE ExtractLoop(items, n + 1, st.sections, st.current)

\* _extract_sections(parsed_document)
ExtractSections(parsed_document) ==
    ExtractLoop(Get(parsed_document, "content", <<>>), 1, <<>>, NewSection)

----------------------------------------------------------------------------
(* The partitioner alone, stepped item by item *)

PartitionInit ==
    /\ p_pc = "loop"
    /\ p_items \in SeqsUpTo(PartitionItems, MaxItems)
    /\ p_index = 0
    /\ p_sections = <<>>
    /\ p_current = NewSection

PartitionIdle ==
    /\ p_pc = "idle"
    /\ p_items = <<>>
    /\ p_index = 0
    /\ p_sections = <<>>
    /\ p_current = NewSection

\* one iteration of the for loop
PartitionItem ==
    /\ p_pc = "loop"
    /\ p_index < Len(p_items)
    /\ LET st == ItemStep(p_sections, p_current, p_items[p_index + 1])
       IN  /\ p_pc' = IF st.raised THEN "raised" ELSE "loop"
           /\ p_sections' = st.sections
           /\ p_current' = st.current
    /\ p_index' = p_index + 1
    /\ UNCHANGED <<p_items, notPartVars>>

\* the end of the stream: the last append and the return
PartitionReturn ==
    /\ p_pc = "loop"
    /\ p_index = Len(p_items)
    /\ p_sections' = FinalEmit(p_sections, p_current)
    /\ p_pc' = "done"
    /\ UNCHANGED <<p_items, p_index, p_current, notPartVars>>

----------------------------------------------------------------------------
(* The Reasoning Service: openai.chat.completions.create *)

Concept ==
    [name |-> "Addition Function", text_references |-> <<"A">>,
     code_references |-> <<"c1">>, explanation |-> "e",
     metadata |-> [confidence |-> "0.95", type |-> "implementation"]]

\* What one call does: it raises, or it returns a ChatCompletion whose
\* choices[0].message.content is the given string.
ServiceError == [raises |-> TRUE]
Completion(content) == [raises |-> FALSE, content |-> content]

WellFormedContent == "{\"concepts\": [{...}]}"
EmptyConceptsContent == "{\"concepts\": []}"
InvalidJsonContent == "invalid json"
ArrayContent == "[1, 2]"
NoConceptsKeyContent == "{\"links\": []}"

MalformedContents == {InvalidJsonContent, ArrayContent, NoConceptsKeyContent}
Contents == {WellFormedContent, EmptyConceptsContent} \cup MalformedContents
Responses == {ServiceError} \cup {Completion(c) : c \in Contents}

\* json.loads on the payloads above: a JSONDecodeError, or the decoded value
JsonLoads(content) ==
    CASE content = WellFormedContent ->
            [raised |-> FALSE, type |-> "dict", value |-> [concepts |-> <<Concept>>]]
      [] content = EmptyConceptsContent ->
            [raised |-> FALSE, type |-> "dict", value |-> [concepts |-> <<>>]]
      [] content = ArrayContent ->
            [raised |-> FALSE, type |-> "list", value |-> <<1, 2>>]
      [] content = NoConceptsKeyContent ->
            [raised |-> FALSE, type |-> "dict", value |-> [links |-> <<>>]]
      [] OTHER -> [raised |-> TRUE, type |-> "JSONDecodeError", value |-> <<>>]

\* _parse_openai_response(response): both except clauses return {"concepts": []}
ParseOpenAIResponseUnvalidated(response) ==
    LET loaded == JsonLoads(response.content)
    IN  IF loaded.raised THEN [concepts |-> <<>>] ELSE loaded.value

ParseOpenAIResponse(response) ==
    LET loaded == JsonLoads(response.content)
    IN  IF loaded.raised THEN [concepts |-> <<>>]
        ELSE IF loaded.type # "dict" \/ "concepts" \notin DOMAIN loaded.value
             THEN [concepts |-> <<>>]
             ELSE loaded.value

----------------------------------------------------------------------------
(* _process_section *)

\* not section["text"] or not section["code"]
SkipsLinkingBothEmpty(section) == section.text = <<>> /\ section.code = <<>>

SkipsLinking(section) == section.text = <<>> \/ section.code = <<>>

\* _prepare_prompt: "\n".join(section["text"]) raises TypeError on a non-string
PreparePromptRaises(section) == \E n \in 1..Len(section.text) : ~IsStr(section.text[n])

\* the except clause around the call: log and return the section
OnServiceErrorReraise(section) ==
    [raised |-> TRUE, called |-> TRUE, section |-> section]

OnServiceErrorEmptyLinks(section) ==
    [raised |-> FALSE, called |-> TRUE,
     section |-> [text |-> section.text, code |-> section.code,
                  semantic_links |-> [concepts |-> <<>>]]]

OnServiceError(section) ==
    [raised |-> FALSE, called |-> TRUE, section |-> section]

\* _process_section(section) when the Reasoning Service answers with response:
\* raised (an exception leaves it), called (the service was invoked), section
ProcessSection(section, response) ==
    IF SkipsLinking(section) THEN [raised |-> FALSE, called |-> FALSE, section |-> section]
    ELSE IF PreparePromptRaises(section)
         THEN [raised |-> TRUE, called |-> FALSE, section |-> section]
    ELSE IF response.raises THEN OnServiceError(section)
    ELSE [raised |-> FALSE, called |-> TRUE,
          section |-> [text |-> section.text, code |-> section.code,
                       semantic_links |-> ParseOpenAIResponse(response)]]

----------------------------------------------------------------------------
(* process_document and run *)

Model == "gpt-4"
Temperature == 0
Timestamps == {"t1", "t2"}      \* str(datetime.now())

\* the dict process_document returns
AssembleDocument(parsed_document, linked) ==
    [metadata |-> Get(parsed_document, "metadata", EmptyDict),
     linked_sections |-> linked,
     original_path |-> Get(parsed_document, "path", ""),
     processing_info |-> [model |-> Model, temperature |-> Temperature]]

\* run's except clause around process_document
OnDocumentErrorSkip(linked, doc) == linked

OnDocumentErrorStub(linked, doc) == Append(linked, AssembleDocument(doc, <<>>))

OnDocumentError(linked, doc) == Append(linked, doc)

HasLinks(d) == "semantic_links" \in DOMAIN d

\* len([d for d in linked_documents if "semantic_links" in d])
CountWithLinks(linked) == Cardinality({n \in 1..Len(linked) : HasLinks(linked[n])})

\* len([d for d in linked_documents if "semantic_links" not in d])
CountWithoutLinks(linked) == Cardinality({n \in 1..Len(linked) : ~HasLinks(linked[n])})

CountWithoutLinkedSections(linked) ==
    Cardinality({n \in 1..Len(linked) : "linked_sections" \notin DOMAIN linked[n]})

\* context["semantic_linking_stats"]
StatsFailedByShape(linked, total, now) ==
    [total_documents |-> total,
     successful_documents |-> CountWithLinks(linked),
     failed_documents |-> CountWithoutLinkedSections(linked),
     model_used |-> Model,
     timestamp |-> now]

Stats(linked, total, now) ==
    [total_documents |-> total,
     successful_documents |-> CountWithLinks(linked),
     failed_documents |-> CountWithoutLinks(linked),
     model_used |-> Model,
     timestamp |-> now]

----------------------------------------------------------------------------
(* The parsed documents a run is given *)

Doc(path, content) == [path |-> path, content |-> content]

DocPool ==
    { Doc("doc1.md", <<TextA, Code1>>),
      Doc("two.md", <<TextA, Code1, TextB, Code2>>),
      Doc("trail.md", <<TextA, Code1, TextB>>),
      Doc("lead.md", <<Code2, TextA, ImageItem>>),
      Doc("text.md", <<TextA, TextB>>),
      Doc("code.md", <<Code2>>),
      [path |-> "bare.md", metadata |-> [word_count |-> "0"]],
      Doc("notype.md", <<TextA, Code1, NoTypeItem>>),
      Doc("none.md", <<TextA, Code1, TextNone, Code2>>) }

\* the context as the caller hands it to the agent
InitialContexts ==
    {EmptyDict} \cup {[parsed_documents |-> docs] : docs \in SeqsUpTo(DocPool, MaxDocs)}

NoCall == [called |-> FALSE, raised |-> FALSE]

RunInit ==
    /\ context \in InitialContexts
    /\ pc = "start"
    /\ linked_documents = <<>>
    /\ total_documents = 0
    /\ doc_index = 0
    /\ sections = <<>>
    /\ linked_sections = <<>>
    /\ section_index = 0
    /\ api_calls = <<>>
    /\ last_call = NoCall
    /\ doc_raised = {}

RunIdle ==
    /\ context = EmptyDict
    /\ pc = "idle"
    /\ linked_documents = <<>>
    /\ total_documents = 0
    /\ doc_index = 0
    /\ sections = <<>>
    /\ linked_sections = <<>>
    /\ section_index = 0
    /\ api_calls = <<>>
    /\ last_call = NoCall
    /\ doc_raised = {}

\* the document the for loop of run is at
CurrentDoc == IterItem(context["parsed_documents"][doc_index + 1])

NoParsedDocumentsKeyOnly(ctx) == "parsed_documents" \notin DOMAIN ctx

\* not self.context.get("parsed_documents")
NoParsedDocuments(ctx) == Get(ctx, "parsed_documents", <<>>) = <<>>

\* run, up to the for loop: the ValueError on no documents goes through the
\* outer except clause, which sets semantic_linking_completed False and re-raises
RunStart ==
    /\ pc = "start"
    /\ IF NoParsedDocuments(context)
       THEN /\ context' = Put(context, "semantic_linking_completed", FALSE)
            /\ pc' = "raised"
            /\ UNCHANGED total_documents
       ELSE /\ total_documents' = Len(context["parsed_documents"])
            /\ pc' = "loop"
            /\ UNCHANGED context
    /\ UNCHANGED <<linked_documents, doc_index, sections, linked_sections,
                   section_index, api_calls, last_call, doc_raised, notRunVars>>

\* one iteration of run's for loop.  doc.get('path', 'unknown') of line 61 is
\* outside the inner try: on an element without .get the AttributeError goes
\* through the outer except clause.  Otherwise process_document is entered:
\* _extract_sections either raises (run appends the original document) or
\* yields the sections
ProcessDocumentStart ==
    /\ pc = "loop"
    /\ doc_index < total_documents
    /\ IF ~IsDict(CurrentDoc)
       THEN /\ context' = Put(context, "semantic_linking_completed", FALSE)
            /\ pc' = "raised"
            /\ UNCHANGED <<linked_documents, doc_raised, doc_index, sections,
                           linked_sections, section_index>>
       ELSE LET extracted == ExtractSections(CurrentDoc)
            IN  /\ UNCHANGED context
                /\ IF extracted.raised
                   THEN /\ linked_documents' = OnDocumentError(linked_documents, CurrentDoc)
                        /\ doc_raised' = doc_raised \cup {doc_index + 1}
                        /\ doc_index' = doc_index + 1
                        /\ UNCHANGED <<pc, sections, linked_sections, section_index>>
                   ELSE /\ sections' = extracted.sections
                        /\ linked_sections' = <<>>
                        /\ section_index' = 0
                        /\ pc' = "sections"
                        /\ UNCHANGED <<linked_documents, doc_raised, doc_index>>
    /\ UNCHANGED <<total_documents, api_calls, last_call, notRunVars>>

\* self.retry_attempts, read from the configuration and used nowhere
RetryAttempts == 3

AttemptsWithRetry(response) == IF response.raises THEN RetryAttempts ELSE 1

\* the invocations of openai.chat.completions.create one _process_section
\* makes once it has a prompt: the call is in no loop
Attempts(response) == 1

PrependLinked(linked, linked_section) == <<linked_section>> \o linked

\* linked_sections.append(linked_section)
AppendLinked(linked, linked_section) == Append(linked, linked_section)

\* one iteration of process_document's for loop: _process_section on the next
\* section, the Reasoning Service answering in any of its ways
ProcessSectionStep ==
    /\ pc = "sections"
    /\ section_index < Len(sections)
    /\ \E response \in Responses :
         LET section == sections[section_index + 1]
             res == ProcessSection(section, response)
         IN  /\ last_call' =
                    IF res.called
                    THEN [called |-> TRUE, raised |-> res.raised, section |-> section,
                          response |-> response, result |-> res.section]
                    ELSE last_call
             /\ api_calls' =
                    IF res.called
                    THEN api_calls \o [attempt \in 1..Attempts(response) |->
                                          [doc |-> doc_index + 1,
                                           index |-> section_index + 1,
                                           raised |-> response.raises]]
                    ELSE api_calls
             /\ IF res.raised
                THEN /\ linked_documents' = OnDocumentError(linked_documents, CurrentDoc)
                     /\ doc_raised' = doc_raised \cup {doc_index + 1}
                     /\ doc_index' = doc_index + 1
                     /\ pc' = "loop"
                     /\ UNCHANGED <<linked_sections, section_index>>
                ELSE /\ linked_sections' = AppendLinked(linked_sections, res.section)
                     /\ section_index' = section_index + 1
                     /\ UNCHANGED <<linked_documents, doc_raised, doc_index, pc>>
    /\ UNCHANGED <<context, total_documents, sections, notRunVars>>

\* process_document returns the assembled document and run appends it
ProcessDocumentReturn ==
    /\ pc = "sections"
    /\ section_index = Len(sections)
    /\ linked_documents' =
           Append(linked_documents, AssembleDocument(CurrentDoc, linked_sections))
    /\ doc_index' = doc_index + 1
    /\ pc' = "loop"
    /\ UNCHANGED <<context, total_documents, sections, linked_sections, section_index,
                   api_calls, last_call, doc_raised, notRunVars>>

PublishOverInput(ctx, linked, stats) ==
    Put(Put(Put(Put(ctx, "parsed_documents", linked), "linked_documents", linked),
            "semantic_linking_completed", TRUE),
        "semantic_linking_stats", stats)

\* the three assignments to self.context that end the try block of run
Publish(ctx, linked, stats) ==
    Put(Put(Put(ctx, "linked_documents", linked),
            "semantic_linking_completed", TRUE),
        "semantic_linking_stats", stats)

\* after the for loop: run publishes the results and the statistics
RunFinish ==
    /\ pc = "loop"
    /\ doc_index = total_documents
    /\ \E now \in Timestamps :
         context' = Publish(context, linked_documents,
                            Stats(linked_documents, total_documents, now))
    /\ pc' = "done"
    /\ UNCHANGED <<linked_documents, total_documents, doc_index, sections,
                   linked_sections, section_index, api_calls, last_call,
                   doc_raised, notRunVars>>

----------------------------------------------------------------------------
(* ParsingAgent._extract_sections: the tag-stream reducer                   *)
(* (src/src/documentationllm/agents/parsing_agent.py).  The DocumentSection *)
(* objects are kept by identity, the position of their creation, so that    *)
(* the list an object was appended to is a fact of the model and not of the *)
(* notation.                                                                *)

\* a tag of the soup: its name, get_text().strip() and its class attribute
\* (the empty list when the attribute is absent)
Tag(name, text, class) == [name |-> name, text |-> text, class |-> class]

HeadingNames == {"h1", "h2", "h3", "h4", "h5", "h6"}

\* int(tag.name[1])
HeadingLevel(name) ==
    CASE name = "h1" -> 1 [] name = "h2" -> 2 [] name = "h3" -> 3
      [] name = "h4" -> 4 [] name = "h5" -> 5 [] name = "h6" -> 6

Heading(level, title) ==
    Tag(CHOOSE name \in HeadingNames : HeadingLevel(name) = level, title, <<>>)
Paragraph(text) == Tag("p", text, <<>>)
Pre(text) == Tag("pre", text, <<>>)
CodeTag(text, class) == Tag("code", text, class)

DocumentSection(title, level) ==
    [title |-> title, level |-> level, content |-> "", code_blocks |-> <<>>,
     subsections |-> <<>>, metadata |-> EmptyDict, start_line |-> 0, end_line |-> 0]

\* the reducer before the first tag: sections = [], current_section = None
ReducerStart == [nodes |-> <<>>, sections |-> <<>>, current |-> 0]

AttachesAtTopStrict(nodes, current, level) ==
    current = 0 \/ level < nodes[current].level

AttachesAtTopAlways(nodes, current, level) == TRUE

\* not current_section or level <= current_section.level
AttachesAtTop(nodes, current, level) ==
    current = 0 \/ level <= nodes[current].level

\* tag.get('class', ['text'])[0] if tag.get('class') else 'text'
TagLanguage(tag) == IF tag.class # <<>> THEN tag.class[1] ELSE "text"

\* the block added to section id: a code block to its code_blocks, a
\* non-empty text to its content
AddBlock(st, id, tag) ==
    IF tag.name \in {"pre", "code"}
    THEN [st EXCEPT !.nodes[id].code_blocks =
              Append(@, [language |-> TagLanguage(tag), code |-> tag.text])]
    ELSE IF tag.text # ""
    THEN [st EXCEPT !.nodes[id].content = @ \o tag.text \o "\n"]
    ELSE st

ContentStepToFirst(st, tag) ==
    IF st.current = 0 THEN st ELSE AddBlock(st, st.sections[1], tag)

\* the elif current_section branch: a tag that is not a heading
ContentStep(st, tag) ==
    IF st.current = 0 THEN st ELSE AddBlock(st, st.current, tag)

\* the body of the for loop of _extract_sections on one tag
TagStep(st, tag) ==
    IF tag.name \in HeadingNames
    THEN LET level == HeadingLevel(tag.name)
             id == Len(st.nodes) + 1
             new_section == DocumentSection(tag.text, level)
         IN  IF AttachesAtTop(st.nodes, st.current, level)
             THEN [nodes |-> Append(st.nodes, new_section),
                   sections |-> Append(st.sections, id),
                   current |-> id]
             ELSE [nodes |-> Append([st.nodes EXCEPT ![st.current].subsections =
                                         Append(@, id)], new_section),
                   sections |-> st.sections,
                   current |-> id]
    ELSE ContentStep(st, tag)

RECURSIVE ReduceTags(_, _, _)
ReduceTags(tags, n, st) ==
    IF n > Len(tags) THEN st ELSE ReduceTags(tags, n + 1, TagStep(st, tags[n]))

\* _extract_sections(soup) as a whole
ParserExtractSections(tags) == ReduceTags(tags, 1, ReducerStart)

TagPool ==
    { Heading(1, "T1"), Heading(2, "T2"), Heading(3, "T3"),
      Paragraph("para"), Paragraph(""),
      Pre("body"), CodeTag("body", <<"language-python">>) }

ReducerInit ==
    /\ r_pc = "loop"
    /\ r_tags \in SeqsUpTo(TagPool, MaxTags)
    /\ r_index = 0
    /\ r_nodes = ReducerStart.nodes
    /\ r_sections = ReducerStart.sections
    /\ r_current = ReducerStart.current

ReducerIdle ==
    /\ r_pc = "idle"
    /\ r_tags = <<>>
    /\ r_index = 0
    /\ r_nodes = <<>>
    /\ r_sections = <<>>
    /\ r_current = 0

\* one iteration of the for loop
ReduceTag ==
    /\ r_pc = "loop"
    /\ r_index < Len(r_tags)
    /\ LET st == TagStep([nodes |-> r_nodes, sections |-> r_sections,
                          current |-> r_current], r_tags[r_index + 1])
       IN  /\ r_nodes' = st.nodes
           /\ r_sections' = st.sections
           /\ r_current' = st.current
    /\ r_index' = r_index + 1
    /\ UNCHANGED <<r_pc, r_tags, notReducerVars>>

\* return sections
ReduceReturn ==
    /\ r_pc = "loop"
    /\ r_index = Len(r_tags)
    /\ r_pc' = "done"
    /\ UNCHANGED <<r_tags, r_index, r_nodes, r_sections, r_current, notReducerVars>>

----------------------------------------------------------------------------
(* ParsingAgent._parse_markdown: from the raw content to the tags.          *)
(* The raw content is the sequence of its lines, each one ended by a        *)
(* newline except possibly the last.  markdown.markdown with the extensions *)
(* of lines 108-118 and BeautifulSoup's find_all are translated line by     *)
(* line; what a line is (heading, fence, key: value) is read from tables    *)
(* over the lines that occur in the files of the model.  Fences are written *)
(* with tildes, the second spelling fenced_code accepts.                    *)

RawContent(lines, final_newline) == [lines |-> lines, final_newline |-> final_newline]

\* ATX headings: the line, its level, its text
HeadingLines ==
    { <<"# Title", 1, "Title">>,
      <<"# Título Principal", 1, "Título Principal">>,
      <<"## Seção 1", 2, "Seção 1">>,
      <<"### Subseção 1.1", 3, "Subseção 1.1">>,
      <<"## Seção 2", 2, "Seção 2">>,
      <<"## Usage", 2, "Usage">> }

IsHeadingLine(line) == \E h \in HeadingLines : h[1] = line
HeadingOf(line) == CHOOSE h \in HeadingLines : h[1] = line

\* opening fences: the line and the declared language ("" when none)
FenceLines ==
    { <<"~~~python", "python">>, <<"~~~javascript", "javascript">>, <<"~~~", "">> }

FenceClose == "~~~"
Rule == "---"

\* a fence opens only where a closing fence follows
OpensFence(lines, n) ==
    /\ \E f \in FenceLines : f[1] = lines[n]
    /\ \E m \in (n + 1)..Len(lines) : lines[m] = FenceClose

FenceLanguage(line) == (CHOOSE f \in FenceLines : f[1] = line)[2]

\* fenced_code writes <pre><code class="language-X">; no class without X
FenceClass(lang) == IF lang = "" THEN <<>> ELSE <<"language-" \o lang>>

\* the lines the meta extension reads as key: value
MetaLines ==
    { "title: X", "title: [", "title: Documento de Teste",
      "author: Equipe de Testes", "date: 2025-05-24" }

\* MetaPreprocessor.run of the meta extension: drop an opening ---, then
\* consume key: value lines up to and including a blank line or a closing
\* ---; the first other line ends the metadata and stays
RECURSIVE MetaConsume(_)
MetaConsume(lines) ==
    IF lines = <<>> THEN <<>>
    ELSE IF Head(lines) = "" \/ Head(lines) = Rule THEN Tail(lines)
    ELSE IF Head(lines) \in MetaLines THEN MetaConsume(Tail(lines))
    ELSE lines

MetaStrip(lines) ==
    IF lines # <<>> /\ Head(lines) = Rule
    THEN MetaConsume(Tail(lines))
    ELSE MetaConsume(lines)

NoBlock == [kind |-> "none", text |-> "", lang |-> ""]

\* the element an open paragraph or fence becomes when it is closed: a <p>,
\* or a <pre> with a <code> inside, which find_all yields one after the other
CloseBlock(open) ==
    CASE open.kind = "none" -> <<>>
      [] open.kind = "para" -> <<Paragraph(open.text)>>
      [] open.kind = "fence" ->
            <<Pre(open.text), CodeTag(open.text, FenceClass(open.lang))>>

\* text joined to the lines before it of the same block
Joined(text, line) == IF text = "" THEN line ELSE text \o "\n" \o line

\* the block structure of the lines after the metadata, as the tags
\* soup.find_all(['h1', ..., 'h6', 'p', 'pre', 'code']) returns in order
RECURSIVE ScanLines(_, _, _, _)
ScanLines(lines, n, open, tags) ==
    IF n > Len(lines) THEN tags \o CloseBlock(open)
    ELSE LET line == lines[n]
         IN  IF open.kind = "fence"
             THEN IF line = FenceClose
                  THEN ScanLines(lines, n + 1, NoBlock, tags \o CloseBlock(open))
                  ELSE ScanLines(lines, n + 1,
                                 [open EXCEPT !.text = Joined(@, line)], tags)
             ELSE IF OpensFence(lines, n)
             THEN ScanLines(lines, n + 1,
                            [kind |-> "fence", text |-> "", lang |-> FenceLanguage(line)],
                            tags \o CloseBlock(open))
             ELSE IF IsHeadingLine(line)
             THEN ScanLines(lines, n + 1, NoBlock,
                            tags \o CloseBlock(open)
                                 \o <<Heading(HeadingOf(line)[2], HeadingOf(line)[3])>>)
             ELSE IF line = ""
             THEN ScanLines(lines, n + 1, NoBlock, tags \o CloseBlock(open))
             ELSE IF line = Rule
             THEN \* a setext heading under a paragraph, a horizontal rule otherwise
                  IF open.kind = "para"
                  THEN ScanLines(lines, n + 1, NoBlock, tags \o <<Heading(2, open.text)>>)
                  ELSE ScanLines(lines, n + 1, NoBlock, tags)
             ELSE ScanLines(lines, n + 1,
                            [kind |-> "para", text |-> Joined(open.text, line), lang |-> ""],
                            tags)

\* BeautifulSoup(markdown.markdown(content, ...)).find_all([...])
SoupTags(content) == ScanLines(MetaStrip(content.lines), 1, NoBlock, <<>>)

\* soup.find('h1') of _extract_title
FirstH1(tags) ==
    LET h1s == {n \in 1..Len(tags) : tags[n].name = "h1"}
    IN  IF h1s = {} THEN 0 ELSE CHOOSE n \in h1s : \A m \in h1s : n <= m

\* Path(file_path).stem.replace('_', ' ').title()
StemTitle(file_path) ==
    CASE file_path = "getting_started.md" -> "Getting Started"
      [] file_path = "front.md" -> "Front"
      [] file_path = "badyaml.md" -> "Badyaml"
      [] file_path = "open.md" -> "Open"
      [] file_path = "test.md" -> "Test"
      [] file_path = "README.MD" -> "Readme"
      [] file_path = "guide.markdown" -> "Guide"
      [] file_path = "empty.mdx" -> "Empty"
      [] file_path = "latin1.md" -> "Latin1"

ExtractTitle(tags, file_path) ==
    IF FirstH1(tags) # 0 THEN tags[FirstH1(tags)].text ELSE StemTitle(file_path)

\* re.match(r'^---\n(.*?)\n---\n', raw_content, re.DOTALL): the lines that
\* can close the block are the lines --- from the third on that are followed
\* by a newline; the lazy group ends before the first of them
FrontmatterClosers(content) ==
    {n \in 3..Len(content.lines) :
        /\ content.lines[n] = Rule
        /\ (n < Len(content.lines) \/ content.final_newline)}

FrontmatterMatches(content) ==
    /\ Len(content.lines) >= 3
    /\ content.lines[1] = Rule
    /\ FrontmatterClosers(content) # {}

\* frontmatter_match.group(1), as lines
FrontmatterGroup(content) ==
    LET closer == CHOOSE n \in FrontmatterClosers(content) :
                      \A m \in FrontmatterClosers(content) : n <= m
    IN  SubSeq(content.lines, 2, closer - 1)

\* the lines yaml.safe_load reads as one key of a mapping: line, key, value
\* (the date is a datetime.date, written here as its text)
YamlPairs ==
    { <<"title: X", "title", "X">>,
      <<"title: Documento de Teste", "title", "Documento de Teste">>,
      <<"author: Equipe de Testes", "author", "Equipe de Testes">>,
      <<"date: 2025-05-24", "date", "2025-05-24">> }

\* a flow sequence that is never closed: yaml.safe_load raises
YamlErrors == {"title: ["}

RECURSIVE YamlMapping(_, _, _)
YamlMapping(lines, n, mapping) ==
    IF n > Len(lines) THEN mapping
    ELSE LET pair == CHOOSE y \in YamlPairs : y[1] = lines[n]
         IN  YamlMapping(lines, n + 1, Put(mapping, pair[2], pair[3]))

\* yaml.safe_load on a block of key: value lines
YamlSafeLoad(lines) ==
    IF \E n \in 1..Len(lines) : lines[n] \in YamlErrors
    THEN [raises |-> TRUE]
    ELSE [raises |-> FALSE, value |-> YamlMapping(lines, 1, EmptyDict)]

\* len(raw_content.split()), line by line
WordsOf(line) ==
    CASE line \in {"", "\f"} -> 0
      [] line \in {Rule, "~~~", "~~~python", "~~~javascript", "Body", "x",
                   "console.log(\"Hello!\");"} -> 1
      [] line \in {"# Title", "# Title\f", "title: X", "title: [", "## Usage",
                   "date: 2025-05-24", "def hello():",
                   "    print(\"Hello, World!\")"} -> 2
      [] line \in {"# Título Principal", "## Seção 1", "### Subseção 1.1",
                   "## Seção 2"} -> 3
      [] line \in {"Conteúdo da seção 1.", "Conteúdo da subseção 1.1.",
                   "Conteúdo da seção 2.", "author: Equipe de Testes",
                   "title: Documento de Teste"} -> 4
      [] line = "Este é um parágrafo introdutório." -> 5

RECURSIVE WordCount(_, _)
WordCount(lines, n) == IF n = 0 THEN 0 ELSE WordsOf(lines[n]) + WordCount(lines, n - 1)

RECURSIVE LineChars(_, _)
LineChars(lines, n) == IF n = 0 THEN 0 ELSE Len(lines[n]) + LineChars(lines, n - 1)

\* len(raw_content): the lines and their newlines
CharCount(content) ==
    LineChars(content.lines, Len(content.lines)) + Len(content.lines)
    - (IF content.lines # <<>> /\ ~content.final_newline THEN 1 ELSE 0)

PutFrontmatterAlways(metadata, loaded) ==
    Put(metadata, "frontmatter", IF loaded.raises THEN EmptyDict ELSE loaded.value)

\* the try/except around yaml.safe_load: the key is written only when the
\* block parsed
PutFrontmatter(metadata, loaded) ==
    IF loaded.raises THEN metadata ELSE Put(metadata, "frontmatter", loaded.value)

\* _extract_metadata(soup, raw_content) at the time now
ExtractMetadata(tags, content, now) ==
    LET metadata ==
            [word_count |-> WordCount(content.lines, Len(content.lines)),
             char_count |-> CharCount(content),
             heading_count |-> Cardinality({n \in 1..Len(tags) :
                                               tags[n].name \in HeadingNames}),
             code_block_count |-> Cardinality({n \in 1..Len(tags) :
                                                  tags[n].name \in {"pre", "code"}}),
             processed_at |-> now]
    IN  IF FrontmatterMatches(content)
        THEN PutFrontmatter(metadata, YamlSafeLoad(FrontmatterGroup(content)))
        ELSE metadata

\* generate_content_hash: SHA-256, told apart by what was hashed
ContentHash(content) == <<"sha256", content>>

\* _parse_markdown(content, file_path): the sections are the top-level list
\* of the reducer, objects the DocumentSection objects it created
ParseMarkdown(content, file_path, now) ==
    LET tags == SoupTags(content)
        reduced == ParserExtractSections(tags)
    IN  [file_path |-> file_path,
         file_type |-> "markdown",
         title |-> ExtractTitle(tags, file_path),
         sections |-> reduced.sections,
         objects |-> reduced.nodes,
         metadata |-> ExtractMetadata(tags, content, now),
         content_hash |-> ContentHash(content),
         raw_content |-> content,
         processed_content |-> tags]

----------------------------------------------------------------------------
(* ParsingAgent.process_file and the files it is given *)

\* None, where a ParsedDocument is expected
PyNone == [none |-> TRUE]

File(is_file, decodes, lines, final_newline) ==
    [is_file |-> is_file, decodes |-> decodes,
     content |-> RawContent(lines, final_newline)]

Missing == File(FALSE, FALSE, <<>>, FALSE)

\* the sample_markdown of tests/test_parsing_agent.py
SampleMarkdown ==
    << Rule, "title: Documento de Teste", "author: Equipe de Testes",
       "date: 2025-05-24", Rule, "",
       "# Título Principal", "",
       "Este é um parágrafo introdutório.", "",
       "## Seção 1", "",
       "Conteúdo da seção 1.", "",
       "~~~python", "def hello():", "    print(\"Hello, World!\")", "~~~", "",
       "### Subseção 1.1", "",
       "Conteúdo da subseção 1.1.", "",
       "## Seção 2", "",
       "Conteúdo da seção 2.", "",
       "~~~javascript", "console.log(\"Hello!\");", "~~~" >>

\* the file system: what is found at each path
FileSystem ==
    [ front |-> File(TRUE, TRUE, <<Rule, "title: X", Rule, "# Title", "Body">>, FALSE),
      badyaml |-> File(TRUE, TRUE, <<Rule, "title: [", Rule, "# Title", "Body">>, TRUE),
      open |-> File(TRUE, TRUE, <<Rule, "title: X", "", "# Title", "Body">>, TRUE),
      empty |-> File(TRUE, TRUE, <<Rule, "title: X", Rule>>, FALSE),
      test |-> File(TRUE, TRUE, SampleMarkdown, TRUE),
      started |-> File(TRUE, TRUE, <<"## Usage", "", "~~~", "x", "~~~">>, TRUE),
      readme |-> File(TRUE, TRUE, <<"# Title\f", "", "Body">>, TRUE),
      guide |-> File(TRUE, TRUE, <<"# Title", "", "~~~python", "x", "~~~">>, TRUE),
      latin1 |-> File(TRUE, FALSE, <<>>, FALSE),
      rst |-> File(TRUE, TRUE, <<"x">>, TRUE),
      txt |-> File(TRUE, TRUE, <<"x">>, TRUE),
      html |-> File(TRUE, TRUE, <<"x">>, TRUE),
      htm |-> File(TRUE, TRUE, <<"x">>, TRUE),
      json |-> File(TRUE, TRUE, <<"x">>, TRUE),
      license |-> File(TRUE, TRUE, <<"x">>, TRUE),
      dir |-> Missing,
      nonexistent |-> Missing ]

\* the paths, each with the entry of the file system it leads to and its
\* Path(file_path).suffix.lower()
Paths ==
    { <<"front.md", "front", ".md">>,
      <<"badyaml.md", "badyaml", ".md">>,
      <<"open.md", "open", ".md">>,
      <<"empty.mdx", "empty", ".mdx">>,
      <<"test.md", "test", ".md">>,
      <<"getting_started.md", "started", ".md">>,
      <<"README.MD", "readme", ".md">>,
      <<"latin1.md", "latin1", ".md">>,
      <<"guide.markdown", "guide", ".markdown">>,
      <<"doc.rst", "rst", ".rst">>,
      <<"notes.txt", "txt", ".txt">>,
      <<"index.html", "html", ".html">>,
      <<"old.htm", "htm", ".htm">>,
      <<"data.json", "json", ".json">>,
      <<"LICENSE", "license", "">>,
      <<"docs.md", "dir", ".md">>,
      <<"nonexistent/file.md", "nonexistent", ".md">> }

FilePaths == {path[1] : path \in Paths}
FileAt(file_path) == FileSystem[(CHOOSE path \in Paths : path[1] = file_path)[2]]
Suffix(file_path) == (CHOOSE path \in Paths : path[1] = file_path)[3]

\* validate_file_path: the path resolves to an existing regular file
ValidateFilePath(file_path) == FileAt(file_path).is_file

\* self.supported_extensions
MarkdownExtensions == {".md", ".markdown", ".mdx"}
StubExtensions == {".rst", ".txt", ".html", ".htm"}
SupportedExtensions == MarkdownExtensions \cup StubExtensions

\* sanitize_content on a line: the control characters are removed (newlines
\* are already normalised by the text-mode read)
SanitizeLine(line) ==
    CASE line = "# Title\f" -> "# Title"
      [] line = "\f" -> ""
      [] OTHER -> line

SanitizeContent(content) ==
    [content EXCEPT !.lines = [n \in 1..Len(content.lines) |-> SanitizeLine(content.lines[n])]]

Raises == [raises |-> TRUE]
Returns(value) == [raises |-> FALSE, value |-> value]

\* the try block of process_file
ProcessFileBody(file_path, now) ==
    IF ~ValidateFilePath(file_path) THEN Raises                \* ValueError
    ELSE IF Suffix(file_path) \notin SupportedExtensions THEN Returns(PyNone)
    ELSE IF ~FileAt(file_path).decodes THEN Raises             \* UnicodeDecodeError
    ELSE IF Suffix(file_path) \in StubExtensions THEN Raises   \* NotImplementedError
    ELSE Returns(ParseMarkdown(SanitizeContent(FileAt(file_path).content),
                               file_path, now))

OnFileErrorReraise == Raises

\* except Exception: log and return None
OnFileError == Returns(PyNone)

\* process_file(file_path)
ProcessFile(file_path, now) ==
    LET body == ProcessFileBody(file_path, now)
    IN  IF body.raises THEN OnFileError ELSE body

----------------------------------------------------------------------------
(* main: download, ParsingAgent.run over process_files, the semantic        *)
(* linking stage, then token analysis and the report                        *)
(* (src/src/documentationllm/main.py, agents/parsing_agent.py)              *)

\* config["directories"]["temp"], the temp_dir of the ParsingAgent
TempDirs == {".", "data/temp"}

\* the context main builds, the agents constructed on it
MainContexts == {[directories |-> [temp |-> temp]] : temp \in TempDirs}

MainIdle ==
    /\ m_pc = "idle"
    /\ f_index = 0
    /\ processed_docs = <<>>
    /\ f_calls = <<>>
    /\ exit_status = <<>>

MainInit ==
    /\ m_pc = "download"
    /\ f_index = 0
    /\ processed_docs = <<>>
    /\ f_calls = <<>>
    /\ exit_status = <<>>
    /\ context \in MainContexts
    /\ pc = "idle"
    /\ linked_documents = <<>>
    /\ total_documents = 0
    /\ doc_index = 0
    /\ sections = <<>>
    /\ linked_sections = <<>>
    /\ section_index = 0
    /\ api_calls = <<>>
    /\ last_call = NoCall
    /\ doc_raised = {}

\* stage 1: DownloadAgent.run either raises, and main returns 1 from its
\* except clause, or lists the documentation files it found
MainDownload ==
    /\ m_pc = "download"
    /\ \/ /\ m_pc' = "exited"
          /\ exit_status' = <<1>>
          /\ UNCHANGED context
       \/ \E files \in SeqsUpTo(FilePaths, MaxFiles) :
            /\ context' = Put(Put(context, "documentation_files", files),
                              "download_completed", TRUE)
            /\ m_pc' = "parsing"
            /\ UNCHANGED exit_status
    /\ UNCHANGED <<f_index, processed_docs, f_calls, pc, linked_documents,
                   total_documents, doc_index, sections, linked_sections,
                   section_index, api_calls, last_call, doc_raised,
                   partVars, reducerVars, cacheVars, vcVars>>

\* stage 2, ParsingAgent.run up to process_files: without files it returns
\* the context as it is, and main raises on the missing parsing_completed
ParsingStart ==
    /\ m_pc = "parsing"
    /\ IF Get(context, "documentation_files", <<>>) = <<>>
       THEN /\ m_pc' = "exited"
            /\ exit_status' = <<1>>
       ELSE /\ m_pc' = "files"
            /\ UNCHANGED exit_status
    /\ f_index' = 0
    /\ processed_docs' = <<>>
    /\ UNCHANGED <<f_calls, runVars, partVars, reducerVars, cacheVars, vcVars>>

StoreDocumentAlways(docs, file_path, doc) == Append(docs, Entry(file_path, doc))

\* if doc := self.process_file(file_path): processed_docs[file_path] = doc
StoreDocument(docs, file_path, doc) ==
    IF doc # PyNone THEN DictSet(docs, file_path, doc) ELSE docs

\* one iteration of the for loop of process_files
ProcessFilesStep ==
    /\ m_pc = "files"
    /\ f_index < Len(context["documentation_files"])
    /\ \E now \in Timestamps :
         LET file_path == context["documentation_files"][f_index + 1]
             doc == ProcessFile(file_path, now)
         IN  /\ f_calls' = Append(f_calls, [file_path |-> file_path, outcome |-> doc])
             /\ processed_docs' =
                    IF doc.raises THEN processed_docs
                    ELSE StoreDocument(processed_docs, file_path, doc.value)
             /\ IF doc.raises
                THEN \* the exception leaves process_files and is caught by run
                     /\ context' = Put(context, "parsing_completed", FALSE)
                     /\ m_pc' = "exited"
                     /\ exit_status' = <<1>>
                     /\ UNCHANGED f_index
                ELSE /\ f_index' = f_index + 1
                     /\ UNCHANGED <<context, m_pc, exit_status>>
    /\ UNCHANGED <<pc, linked_documents, total_documents, doc_index, sections,
                   linked_sections, section_index, api_calls, last_call,
                   doc_raised, partVars, reducerVars, cacheVars, vcVars>>

\* Path(file_path).relative_to(self.temp_dir) of save_results
RelativeToRaises(file_path, temp_dir) == temp_dir # "."

\* json.dump of save_results raises on a value json cannot write: the date
\* yaml.safe_load made of the frontmatter of the test document
JsonDumpRaises(doc) ==
    /\ "frontmatter" \in DOMAIN doc.metadata
    /\ "date" \in DOMAIN doc.metadata["frontmatter"]

SaveResultsRaises(docs, temp_dir) ==
    \E n \in 1..Len(docs) :
        \/ RelativeToRaises(docs[n].dict_key, temp_dir)
        \/ JsonDumpRaises(docs[n].dict_value)

\* the rest of ParsingAgent.run: save_results, then the context; on an
\* exception parsing_completed is False and main raises
ParsingFinish ==
    /\ m_pc = "files"
    /\ f_index = Len(context["documentation_files"])
    /\ IF SaveResultsRaises(processed_docs, context["directories"]["temp"])
       THEN /\ context' = Put(context, "parsing_completed", FALSE)
            /\ m_pc' = "exited"
            /\ exit_status' = <<1>>
            /\ UNCHANGED pc
       ELSE /\ context' = Put(Put(context, "parsed_documents", processed_docs),
                              "parsing_completed", TRUE)
            /\ m_pc' = "linking"
            /\ pc' = "start"
            /\ UNCHANGED exit_status
    /\ UNCHANGED <<f_index, processed_docs, f_calls, linked_documents,
                   total_documents, doc_index, sections, linked_sections,
                   section_index, api_calls, last_call, doc_raised,
                   partVars, reducerVars, cacheVars, vcVars>>

\* semantic_linking_agent.run() has returned or raised: an exception reaches
\* the except clause of main, which returns 1; otherwise token analysis and
\* the report run, and main returns 0 unless one of them raises
MainReturn ==
    /\ m_pc = "linking"
    /\ pc \in {"raised", "done"}
    /\ IF pc = "raised"
       THEN exit_status' = <<1>>
       ELSE \E later_stage_raises \in BOOLEAN :
              exit_status' = IF later_stage_raises THEN <<1>> ELSE <<0>>
    /\ m_pc' = "exited"
    /\ UNCHANGED <<f_index, processed_docs, f_calls, runVars, partVars, reducerVars, cacheVars, vcVars>>

----------------------------------------------------------------------------
(* SemanticCache (src/src/documentationllm/utils/cache.py): instances on    *)
(* one cache directory, a clock, the file semantic_cache.json               *)

CacheTtlHours == 24         \* config.get("cache.ttl_hours", 24)
TickHours == 12             \* the clock advances by half a TTL

Instances == {"cache1", "cache2"}

\* the (text, code) pairs the cache is asked about
CachePairs ==
    { <<"test text", "test code">>, <<"a\nb", "c">>, <<"a", "b\nc">> }

CacheResponses == { [concepts |-> <<[name |-> "test"]>>], [test |-> "data"] }

\* _compute_hash: SHA-256 of f"{text}\n{code}", told apart by what is hashed
ComputeHash(text, code) == text \o "\n" \o code

Times == {n * TickHours : n \in 0..MaxTicks}

\* datetime.isoformat() and datetime.fromisoformat()
IsoTable == {<<t, ToString(t) \o ":00:00">> : t \in Times}
IsoFormat(t) == (CHOOSE e \in IsoTable : e[1] = t)[2]
FromIsoFormat(str) == (CHOOSE e \in IsoTable : e[2] = str)[1]

\* del d[k]
Del(d, k) == [key \in DOMAIN d \ {k} |-> d[key]]

\* datetime.fromisoformat(v["timestamp"]) + self.cache_ttl > now
IsFresh(entry, now) == FromIsoFormat(entry["timestamp"]) + CacheTtlHours > now

NoFile == [exists |-> FALSE, data |-> EmptyDict]

NeverSet == [set |-> FALSE]

NoGet == [called |-> FALSE]

\* the call just made was the constructor of instance i, which ran _load_cache
Loaded(i) == [called |-> FALSE, loaded |-> i]

CacheIdle ==
    /\ c_now = 0
    /\ c_live = {}
    /\ c_memory = [i \in Instances |-> EmptyDict]
    /\ c_disk = NoFile
    /\ c_written = [pair \in CachePairs |-> NeverSet]
    /\ c_sets = 0
    /\ c_last = NoGet

\* the first instance has been constructed on a directory without a file
CacheInit ==
    /\ c_now = 0
    /\ c_live = {"cache1"}
    /\ c_memory = [i \in Instances |-> EmptyDict]
    /\ c_disk = NoFile
    /\ c_written = [pair \in CachePairs |-> NeverSet]
    /\ c_sets = 0
    /\ c_last = NoGet

\* _load_cache: the entries of the file that have not expired, nothing when
\* there is no file.  The disk is taken to work: open, json.load and
\* json.dump do not raise, and json gives back the dicts it was given
LoadCache(disk, now) ==
    IF ~disk.exists THEN EmptyDict
    ELSE [key \in {k \in DOMAIN disk.data : IsFresh(disk.data[k], now)} |-> disk.data[key]]

\* _save_cache: json.dump of memory_cache
SaveCache(memory_cache) == [exists |-> TRUE, data |-> memory_cache]

\* SemanticCache(config) on the same directory
CacheNew ==
    /\ \E i \in Instances \ c_live :
         /\ c_live' = c_live \cup {i}
         /\ c_memory' = [c_memory EXCEPT ![i] = LoadCache(c_disk, c_now)]
         /\ c_written' = [pair \in CachePairs |->
                             IF c_written[pair].set
                             THEN [c_written[pair] EXCEPT !.seen = @ \cup {i}]
                             ELSE c_written[pair]]
         /\ c_last' = Loaded(i)
    /\ UNCHANGED <<c_now, c_disk, c_sets, notCacheVars>>

\* set(text, code, response)
CacheSet ==
    /\ c_sets < MaxSets
    /\ \E i \in c_live, pair \in CachePairs, response \in CacheResponses :
         LET cache_key == ComputeHash(pair[1], pair[2])
             memory_cache == Put(c_memory[i], cache_key,
                                 [timestamp |-> IsoFormat(c_now), response |-> response])
         IN  /\ c_memory' = [c_memory EXCEPT ![i] = memory_cache]
             /\ c_disk' = SaveCache(memory_cache)
             /\ c_written' = [c_written EXCEPT ![pair] =
                                 [set |-> TRUE, at |-> c_now, response |-> response,
                                  seen |-> {i}]]
    /\ c_sets' = c_sets + 1
    /\ c_last' = NoGet
    /\ UNCHANGED <<c_now, c_live, notCacheVars>>

\* what get returned
Got(i, pair, result) ==
    [called |-> TRUE, instance |-> i, pair |-> pair, result |-> result]

\* get(text, code): a hit, or None after removing an expired entry
CacheGet ==
    /\ \E i \in c_live, pair \in CachePairs :
         LET cache_key == ComputeHash(pair[1], pair[2])
         IN  IF cache_key \notin DOMAIN c_memory[i]
             THEN /\ c_last' = Got(i, pair, PyNone)
                  /\ UNCHANGED <<c_memory, c_disk>>
             ELSE IF IsFresh(c_memory[i][cache_key], c_now)
             THEN /\ c_last' = Got(i, pair, c_memory[i][cache_key]["response"])
                  /\ UNCHANGED <<c_memory, c_disk>>
             ELSE /\ c_memory' = [c_memory EXCEPT ![i] = Del(@, cache_key)]
                  /\ c_disk' = SaveCache(Del(c_memory[i], cache_key))
                  /\ c_last' = Got(i, pair, PyNone)
    /\ UNCHANGED <<c_now, c_live, c_written, c_sets, notCacheVars>>

\* time passes
CacheTick ==
    /\ c_now + TickHours \in Times
    /\ c_now' = c_now + TickHours
    /\ c_last' = NoGet
    /\ UNCHANGED <<c_live, c_memory, c_disk, c_written, c_sets, notCacheVars>>

----------------------------------------------------------------------------
(* VersionControl (src/src/utils/version_control.py): one instance on a     *)
(* fresh base directory, a clock in seconds, the version directories.  The  *)
(* source directories are taken to hold no matching file, so a snapshot     *)
(* records no files and rollback's loop over them has nothing to restore.   *)

MaxVersionsValues == 1..MaxVersions

\* datetime.now().strftime("%Y%m%d_%H%M%S"): one stamp per second
Strftime(t) == "20250524_12000" \o ToString(t)

\* f"v_{timestamp}"
VersionId(t) == "v_" \o Strftime(t)

VersionIds == {VersionId(t) : t \in 0..MaxSeconds}

\* the version_id arguments of rollback: None, the ids, an id never created
RollbackArguments == {NoneValue, "v_19990101_000000"} \cup VersionIds

Descriptions == {"backup"}

\* the dict create_snapshot appends
Snapshot(t, description) ==
    [id |-> VersionId(t), timestamp |-> Strftime(t), description |-> description,
     files_count |-> 0, files |-> <<>>]

\* the versions dict of a fresh base directory
NoVersions == [current_version |-> NoneValue, snapshots |-> <<>>]

VcIdle ==
    /\ v_max = 1
    /\ v_versions = NoVersions
    /\ v_dirs = {}
    /\ v_now = 0
    /\ v_creates = 0
    /\ v_last = [op |-> "idle"]

\* VersionControl(base_dir, max_versions) where no versions.json exists
VcInit ==
    /\ v_max \in MaxVersionsValues
    /\ v_versions = NoVersions
    /\ v_dirs = {}
    /\ v_now = 0
    /\ v_creates = 0
    /\ v_last = [op |-> "init"]

LimitByNewest(snapshots, max_versions) ==
    IF Len(snapshots) > max_versions
    THEN SubSeq(snapshots, 1, Len(snapshots) - 1)
    ELSE snapshots

\* if len(snapshots) > self.max_versions: snapshots.pop(0)
Limit(snapshots, max_versions) ==
    IF Len(snapshots) > max_versions THEN Tail(snapshots) ELSE snapshots

\* create_snapshot(description).  os.makedirs(version_dir) may raise before
\* anything is recorded; otherwise the snapshot is appended, becomes the
\* current version, and the oldest snapshot and its directory are removed
\* when the list has grown past max_versions
VcCreateSnapshot ==
    /\ v_creates < MaxCreates
    /\ v_creates' = v_creates + 1
    /\ \E description \in Descriptions, makedirs_raises \in BOOLEAN :
         LET version_id == VersionId(v_now)
             appended == Append(v_versions.snapshots, Snapshot(v_now, description))
             evicts == Len(appended) > v_max
         IN  IF makedirs_raises
             THEN /\ v_last' = [op |-> "create_snapshot", raised |-> TRUE]
                  /\ UNCHANGED <<v_versions, v_dirs>>
             ELSE /\ v_versions' = [current_version |-> version_id,
                                    snapshots |-> Limit(appended, v_max)]
                  /\ v_dirs' = (v_dirs \cup {version_id})
                                 \ (IF evicts THEN {Head(appended).id} ELSE {})
                  /\ v_last' = [op |-> "create_snapshot", raised |-> FALSE,
                                result |-> version_id]
    /\ UNCHANGED <<v_max, v_now, notVcVars>>

\* next(i for i, s in enumerate(snapshots) if s["id"] == id), 0 when none
\* (positions from 1)
IndexOfId(snapshots, id) ==
    LET found == {n \in 1..Len(snapshots) : snapshots[n].id = id}
    IN  IF found = {} THEN 0 ELSE CHOOSE n \in found : \A m \in found : n <= m

\* the snapshot rollback is to restore: its position, 0 when rollback
\* returns before it has one
VersionToRestore(versions, version_id) ==
    IF version_id = NoneValue
    THEN IF Len(versions.snapshots) < 2 THEN 0
         ELSE LET current_index == IndexOfId(versions.snapshots, versions.current_version)
              IN  IF current_index <= 1 THEN 0 ELSE current_index - 1
    ELSE IndexOfId(versions.snapshots, version_id)

\* rollback(version_id, dry_run)
VcRollback ==
    /\ \E version_id \in RollbackArguments, dry_run \in BOOLEAN :
         LET restore == VersionToRestore(v_versions, version_id)
             call == [op |-> "rollback", version_id |-> version_id, dry_run |-> dry_run]
         IN  IF restore = 0 \/ v_versions.snapshots[restore].id \notin v_dirs
             THEN /\ v_last' = call @@ [success |-> FALSE]
                  /\ UNCHANGED v_versions
             ELSE /\ v_last' = call @@ [success |-> TRUE,
                                         version |-> v_versions.snapshots[restore].id]
                  /\ v_versions' =
                        IF dry_run THEN v_versions
                        ELSE [v_versions EXCEPT
                                !.current_version = v_versions.snapshots[restore].id]
    /\ UNCHANGED <<v_max, v_dirs, v_now, v_creates, notVcVars>>

\* a second passes
VcTick ==
    /\ v_now < MaxSeconds
    /\ v_now' = v_now + 1
    /\ v_last' = [op |-> "tick"]
    /\ UNCHANGED <<v_max, v_versions, v_dirs, v_creates, notVcVars>>

----------------------------------------------------------------------------
(* Specifications *)

Init == RunInit /\ PartitionIdle /\ ReducerIdle /\ MainIdle /\ CacheIdle /\ VcIdle

Next ==
    \/ RunStart
    \/ ProcessDocumentStart
    \/ ProcessSectionStep
    \/ ProcessDocumentReturn
    \/ RunFinish

Spec == Init /\ [][Next]_vars

\* run is one sequential computation: a step that can be taken is taken.  For
\* the step that calls the Reasoning Service this is the assumption that
\* every call returns or raises
SpecTerminating == Spec /\ WF_vars(Next)

InitPartition == PartitionInit /\ RunIdle /\ ReducerIdle /\ MainIdle /\ CacheIdle /\ VcIdle

NextPartition ==
    \/ PartitionItem
    \/ PartitionReturn

SpecPartition == InitPartition /\ [][NextPartition]_vars

InitReducer == ReducerInit /\ RunIdle /\ PartitionIdle /\ MainIdle /\ CacheIdle /\ VcIdle

NextReducer ==
    \/ ReduceTag
    \/ ReduceReturn

SpecReducer == InitReducer /\ [][NextReducer]_vars

\* main from its first stage on.  Of SemanticLinkingAgent.run only the steps
\* main reaches take part: run is given the dict ParsingAgent.run stored, its
\* loop is left at the first key, and the steps over sections and the final
\* step are never enabled (PipelineStopsAtFirstKey below)
InitPipeline == MainInit /\ PartitionIdle /\ ReducerIdle /\ CacheIdle /\ VcIdle

NextPipeline ==
    \/ MainDownload
    \/ ParsingStart
    \/ ProcessFilesStep
    \/ ParsingFinish
    \/ RunStart
    \/ ProcessDocumentStart
    \/ MainReturn

SpecPipeline == InitPipeline /\ [][NextPipeline]_vars

InitCache == CacheInit /\ RunIdle /\ PartitionIdle /\ ReducerIdle /\ MainIdle /\ VcIdle

NextCache ==
    \/ CacheNew
    \/ CacheSet
    \/ CacheGet
    \/ CacheTick

SpecCache == InitCache /\ [][NextCache]_vars

InitVersions == VcInit /\ RunIdle /\ PartitionIdle /\ ReducerIdle /\ MainIdle /\ CacheIdle

NextVersions ==
    \/ VcCreateSnapshot
    \/ VcRollback
    \/ VcTick

SpecVersions == InitVersions /\ [][NextVersions]_vars

----------------------------------------------------------------------------
(* Vocabulary of the properties *)

Parsed == Get(context, "parsed_documents", <<>>)

Returned == pc = "done"

\* a section as the partitioner emitted it: text and code, nothing else
IsUnlinked(section) == DOMAIN section = {"text", "code"}

\* the sections of every document run has gone through without an exception,
\* and those of the document in progress: where, what went in, what came out
ProcessedSections ==
    UNION {IF d \in doc_raised THEN {}
           ELSE {[doc |-> d, index |-> k,
                  input |-> ExtractSections(Parsed[d]).sections[k],
                  output |-> linked_documents[d]["linked_sections"][k]] :
                    k \in 1..Len(linked_documents[d]["linked_sections"])} :
           d \in 1..Len(linked_documents)}
    \cup
    {[doc |-> doc_index + 1, index |-> k, input |-> sections[k],
      output |-> linked_sections[k]] :
        k \in {k \in 1..Len(linked_sections) : pc = "sections"}}

CallsFor(d, k) == {c \in 1..Len(api_calls) : api_calls[c].doc = d /\ api_calls[c].index = k}

ServiceAlwaysRaised == \A c \in 1..Len(api_calls) : api_calls[c].raised

\* a section of some output document carries semantic_links
LinkedSectionIn(d) ==
    /\ "linked_sections" \in DOMAIN d
    /\ \E k \in 1..Len(d["linked_sections"]) : HasLinks(d["linked_sections"][k])

----------------------------------------------------------------------------
(* C1: after run returns, linked_documents has one entry per input document
   and the i-th entry is the result for the i-th input: the original document
   itself when its processing raised, else the linked document built from
   it (its path, its metadata, its partitioned sections in order).  The local
   list obeys the same correspondence all along the loop. *)

ResultFor(out, doc, raised) ==
    IF raised THEN out = doc
    ELSE /\ DOMAIN out = {"metadata", "linked_sections", "original_path", "processing_info"}
         /\ out["original_path"] = Get(doc, "path", "")
         /\ out["metadata"] = Get(doc, "metadata", EmptyDict)
         /\ Len(out["linked_sections"]) = Len(ExtractSections(doc).sections)
         /\ \A k \in 1..Len(out["linked_sections"]) :
              /\ out["linked_sections"][k].text = ExtractSections(doc).sections[k].text
              /\ out["linked_sections"][k].code = ExtractSections(doc).sections[k].code

C1_IndexCorrespondence ==
    /\ pc \in {"loop", "sections", "done"} =>
         /\ Len(linked_documents) = doc_index
         /\ \A n \in 1..Len(linked_documents) :
              ResultFor(linked_documents[n], Parsed[n], n \in doc_raised)
    /\ Returned =>
         /\ Len(context["linked_documents"]) = Len(Parsed)
         /\ \A n \in 1..Len(Parsed) :
              ResultFor(context["linked_documents"][n], Parsed[n], n \in doc_raised)

C1_Witness ==
    /\ Returned
    /\ Len(context["linked_documents"]) = MaxDocs
    /\ 1 \in doc_raised
    /\ LinkedSectionIn(context["linked_documents"][MaxDocs])

(* C2: after every run that returns, successful_documents + failed_documents
   equals total_documents, and total_documents is the number of input
   documents. *)
C2_StatsAddUp ==
    Returned =>
        LET stats == context["semantic_linking_stats"]
        IN  /\ stats.successful_documents + stats.failed_documents = stats.total_documents
            /\ stats.total_documents = Len(Parsed)

C2_Witness ==
    /\ Returned
    /\ context["semantic_linking_stats"].total_documents = MaxDocs
    /\ doc_raised = {MaxDocs}
    /\ context["semantic_linking_stats"].failed_documents = MaxDocs

(* C3: after run, successful_documents is the number of output documents
   that carry at least one linked section (a section with semantic_links) and
   failed_documents is its complement; one document with one text+code
   section and a well-formed concept list gives 1 and 0. *)
C3_SuccessCountsLinkedDocuments ==
    Returned =>
        LET stats == context["semantic_linking_stats"]
            out == context["linked_documents"]
            linked == Cardinality({n \in 1..Len(out) : LinkedSectionIn(out[n])})
        IN  /\ stats.successful_documents = linked
            /\ stats.failed_documents = Len(out) - linked
            /\ (/\ Parsed = <<Doc("doc1.md", <<TextA, Code1>>)>>
                /\ last_call.called
                /\ last_call.response = Completion(WellFormedContent))
               => stats.successful_documents = 1 /\ stats.failed_documents = 0

(* C4: with a Reasoning Service that raises on every call, run over N >= 1
   documents returns normally: semantic_linking_completed is True,
   linked_documents has one entry per input document, nothing in the output
   carries semantic_links, successful_documents = 0, failed_documents = N. *)
C4_IsolationWhenServiceAlwaysRaises ==
    /\ (pc = "raised" => Len(Parsed) = 0)
    /\ (Returned /\ ServiceAlwaysRaised) =>
         LET stats == context["semantic_linking_stats"]
             out == context["linked_documents"]
         IN  /\ context["semantic_linking_completed"] = TRUE
             /\ Len(Parsed) >= 1
             /\ Len(out) = Len(Parsed)
             /\ \A n \in 1..Len(out) : ~HasLinks(out[n]) /\ ~LinkedSectionIn(out[n])
             /\ stats.successful_documents = 0
             /\ stats.failed_documents = Len(Parsed)

C4_Witness ==
    /\ Returned
    /\ ServiceAlwaysRaised
    /\ Len(api_calls) >= 2
    /\ Len(Parsed) = MaxDocs
    /\ doc_raised = {}

(* C5: if processing document i raises (while partitioning or linking), run
   catches it, puts the original unlinked input document at position i and
   goes on with the documents after i; the exception never leaves run and
   semantic_linking_completed ends True. *)
C5_DocumentContainment ==
    /\ \A n \in doc_raised :
         /\ pc \in {"loop", "sections", "done"}
         /\ n <= doc_index
         /\ n <= Len(linked_documents)
         /\ linked_documents[n] = Parsed[n]
    /\ Returned =>
         /\ context["semantic_linking_completed"] = TRUE
         /\ doc_index = Len(Parsed)
         /\ Len(context["linked_documents"]) = Len(Parsed)
         /\ \A n \in doc_raised : context["linked_documents"][n] = Parsed[n]

C5_Witness ==
    /\ Returned
    /\ doc_raised = {1}
    /\ Len(Parsed) = MaxDocs
    /\ \E c \in 1..Len(api_calls) : api_calls[c].doc = MaxDocs /\ ~api_calls[c].raised
    /\ ~ExtractSections(Parsed[1]).raised

(* C6: when the Reasoning Service call for a section raises, _process_section
   returns the original section unchanged (same text and code, no
   semantic_links) and does not raise; the other sections of the document
   are still processed and the document is still assembled. *)
C6_SectionContainment ==
    /\ (last_call.called /\ last_call.response.raises) =>
         /\ ~last_call.raised
         /\ last_call.result = last_call.section
         /\ IsUnlinked(last_call.result)
    /\ \A c \in 1..Len(api_calls) :
         api_calls[c].raised =>
            LET d == api_calls[c].doc
                k == api_calls[c].index
                extracted == ExtractSections(Parsed[d]).sections
            IN  /\ (d = doc_index + 1) =>
                     /\ pc = "sections"
                     /\ k <= Len(linked_sections)
                     /\ linked_sections[k] = sections[k]
                /\ (d <= doc_index /\ d \notin doc_raised) =>
                     /\ Len(linked_documents[d]["linked_sections"]) = Len(extracted)
                     /\ linked_documents[d]["linked_sections"][k] = extracted[k]
                /\ (d \in doc_raised) =>
                     \E j \in 1..Len(extracted) : PreparePromptRaises(extracted[j])

C6_Witness ==
    /\ Returned
    /\ doc_raised = {}
    /\ \E c \in 1..Len(api_calls) :
         /\ api_calls[c].raised
         /\ api_calls[c].index = 1
         /\ LET out == context["linked_documents"][api_calls[c].doc]["linked_sections"]
            IN  /\ Len(out) = 2
                /\ IsUnlinked(out[1])
                /\ HasLinks(out[2])

(* C7: a section whose text list is empty or whose code list is empty comes
   out of _process_section unchanged, without semantic_links, and no
   Reasoning Service call is made for it. *)
C7_LinkerPrecondition ==
    \A ps \in ProcessedSections :
        (Len(ps.input.text) = 0 \/ Len(ps.input.code) = 0) =>
            /\ ps.output = ps.input
            /\ ~HasLinks(ps.output)
            /\ CallsFor(ps.doc, ps.index) = {}

C7_Witness ==
    /\ Returned
    /\ \E ps \in ProcessedSections :
         /\ Len(ps.input.code) = 0
         /\ Len(ps.input.text) > 0
         /\ ps.index = 2
         /\ ps.output = ps.input
         /\ CallsFor(ps.doc, 1) # {}
    /\ \E ps \in ProcessedSections : Len(ps.input.text) = 0 /\ ps.output = ps.input

(* C8: when the Reasoning Service returns without raising but its payload is
   not parsable JSON, is not an object, or lacks the key concepts, the parse
   does not raise and the section is returned with semantic_links equal to
   {"concepts": []}. *)
IsMalformed(content) ==
    \/ JsonLoads(content).raised
    \/ JsonLoads(content).type # "dict"
    \/ "concepts" \notin DOMAIN JsonLoads(content).value

C8_MalformedResponseRecoverable ==
    (last_call.called /\ ~last_call.response.raises
        /\ IsMalformed(last_call.response.content)) =>
            /\ ~last_call.raised
            /\ last_call.result =
                   [text |-> last_call.section.text, code |-> last_call.section.code,
                    semantic_links |-> [concepts |-> <<>>]]

C8_Witness ==
    /\ last_call.called
    /\ ~last_call.response.raises
    /\ last_call.response.content = NoConceptsKeyContent
    /\ last_call.result["semantic_links"] = [concepts |-> <<>>]
    /\ pc = "sections"
    /\ linked_sections[section_index] = last_call.result

----------------------------------------------------------------------------
(* The partitioner's properties, under SpecPartition *)

\* the item the for loop of _extract_sections reads next
NextItem == p_items[p_index + 1]

IsNonEmptySection(section) == Len(section.text) + Len(section.code) > 0

SectionA1 ==
    [text |-> <<"A">>,
     code |-> <<[content |-> "c1", language |-> "python", metadata |-> EmptyDict]>>]

SectionB2 ==
    [text |-> <<"B">>,
     code |-> <<[content |-> "c2", language |-> "", metadata |-> EmptyDict]>>]

SectionB == [text |-> <<"B">>, code |-> <<>>]

\* what one step of the pass may do to the emitted list and the accumulator
FlushRule ==
    /\ (p_pc = "loop" /\ p_pc' = "loop" /\ p_index' = p_index + 1) =>
         IF NextItem["type"] = "text" THEN
            IF Len(p_current.text) >= 1 /\ Len(p_current.code) >= 1
            THEN /\ p_sections' = Append(p_sections, p_current)
                 /\ p_current' = [text |-> <<NextItem["content"]>>, code |-> <<>>]
            ELSE /\ p_sections' = p_sections
                 /\ p_current' = [text |-> Append(p_current.text, NextItem["content"]),
                                  code |-> p_current.code]
         ELSE /\ p_sections' = p_sections
              /\ p_current'.text = p_current.text
              /\ NextItem["type"] = "code" =>
                    /\ Len(p_current'.code) = Len(p_current.code) + 1
                    /\ p_current'.code[Len(p_current'.code)].content = NextItem["content"]
    /\ (p_pc = "loop" /\ p_pc' = "done") =>
         /\ p_index = Len(p_items)
         /\ p_sections' = IF IsNonEmptySection(p_current)
                          THEN Append(p_sections, p_current)
                          ELSE p_sections

FlushExamples ==
    p_pc = "done" =>
        /\ p_items = <<TextA, Code1, TextB, Code2>> => p_sections = <<SectionA1, SectionB2>>
        /\ p_items = <<TextA, Code1, TextB>> => p_sections = <<SectionA1, SectionB>>

(* C9: in one left-to-right pass, a text item arriving while the accumulator
   holds at least one text and at least one code item emits the accumulator
   and starts a fresh one before the text is appended; a code item never
   emits; at the end of the stream a non-empty accumulator is emitted.  So
   [A, c1, B, c2] gives [{[A],[c1]}, {[B],[c2]}] and [A, c1, B] gives
   [{[A],[c1]}, {[B],[]}]. *)
C9_PartitionFlushRule == [][FlushRule]_vars /\ []FlushExamples

C9_Witness ==
    /\ p_pc = "done"
    /\ p_items = <<TextA, Code1, TextB, Code2>>
    /\ p_sections = <<SectionA1, SectionB2>>

\* the content items a list of sections holds, section after section, each
\* section's text items before its code items
RECURSIVE Flatten(_)
Flatten(secs) ==
    IF secs = <<>> THEN <<>>
    ELSE LET first == Head(secs)
         IN  [n \in 1..Len(first.text) |-> TextItem(first.text[n])]
             \o [n \in 1..Len(first.code) |->
                    [type |-> "code", content |-> first.code[n].content,
                     language |-> first.code[n].language,
                     metadata |-> first.code[n].metadata]]
             \o Flatten(Tail(secs))

IsTextItem(item) == item["type"] = "text"
IsCodeItem(item) == item["type"] = "code"
IsContentItem(item) == IsTextItem(item) \/ IsCodeItem(item)

\* a text or code item with the defaulted keys of a code item written out
Explicit(item) ==
    IF IsTextItem(item) THEN TextItem(item["content"])
    ELSE [type |-> "code", content |-> item["content"],
          language |-> Get(item, "language", ""),
          metadata |-> Get(item, "metadata", EmptyDict)]

\* the text and code items of the input stream, in order
ContentStream ==
    LET kept == SelectSeq(p_items, IsContentItem)
    IN  [n \in 1..Len(kept) |-> Explicit(kept[n])]

(* C10 as stated: concatenating the text and code items of the emitted
   sections, in order, reproduces the original stream of content items
   exactly. *)
C10_StreamReproduced ==
    p_pc = "done" => Flatten(p_sections) = ContentStream

\* a code item comes before the first text item of the stream
CodeLeadsText ==
    /\ Len(ContentStream) > 0
    /\ IsCodeItem(ContentStream[1])
    /\ \E n \in 1..Len(ContentStream) : IsTextItem(ContentStream[n])

(* C10 amended: no text or code item is dropped or duplicated: the text
   items of the emitted sections, in order, are the text items of the stream
   in order, and likewise the code items; the concatenation reproduces the
   stream exactly unless the stream starts with a code item and holds a text
   item, in which case that leading code comes out after the text of its
   section. *)
C10_PartitionCompleteness ==
    p_pc = "done" =>
        /\ SelectSeq(Flatten(p_sections), IsTextItem) = SelectSeq(ContentStream, IsTextItem)
        /\ SelectSeq(Flatten(p_sections), IsCodeItem) = SelectSeq(ContentStream, IsCodeItem)
        /\ (Flatten(p_sections) = ContentStream) <=> ~CodeLeadsText

C10_Witness ==
    /\ p_pc = "done"
    /\ Len(p_sections) = 2
    /\ Len(ContentStream) = MaxItems
    /\ CodeLeadsText
    /\ Flatten(p_sections) # ContentStream
    /\ SelectSeq(Flatten(p_sections), IsCodeItem) = SelectSeq(ContentStream, IsCodeItem)

----------------------------------------------------------------------------
(* The section tree of the parser's reducer *)

SectionIds == 1..Len(r_nodes)

Occurrences(seq, id) == Cardinality({n \in 1..Len(seq) : seq[n] = id})

RECURSIVE HeldBySubsections(_, _)
HeldBySubsections(n, id) ==
    IF n = 0 THEN 0
    ELSE Occurrences(r_nodes[n].subsections, id) + HeldBySubsections(n - 1, id)

\* how many times the section is held: by the top-level list and by the
\* subsections of the sections
PlacesOf(id) == Occurrences(r_sections, id) + HeldBySubsections(Len(r_nodes), id)

ParentsOf(id) == {n \in SectionIds : Occurrences(r_nodes[n].subsections, id) > 0}

\* C11: at every step of the reducer the sections form a forest: every
\* section created so far is held by exactly one list (the top-level list or
\* one parent's subsections), no set of sections is closed under "has a parent
\* in the set" (no cycle), and every subsection's level is strictly greater
\* than its parent's level.
C11_TreeInvariant ==
    /\ \A id \in SectionIds : PlacesOf(id) = 1
    /\ \A held \in SUBSET SectionIds :
         held # {} => \E id \in held : ParentsOf(id) \cap held = {}
    /\ \A id \in SectionIds : \A n \in ParentsOf(id) :
         r_nodes[id].level > r_nodes[n].level
    /\ \A n \in 1..Len(r_sections) : r_sections[n] \in SectionIds
    /\ \A id \in SectionIds : \A n \in 1..Len(r_nodes[id].subsections) :
         r_nodes[id].subsections[n] \in SectionIds

\* a finished reduction with two top-level sections, a subsection and a
\* sub-subsection
C11_Witness ==
    /\ r_pc = "done"
    /\ Len(r_sections) = 2
    /\ \E id \in SectionIds : \E n \in ParentsOf(id) : ParentsOf(n) # {}

\* the section a heading is attached under, 0 for the top-level list
ActualParent(id) ==
    IF ParentsOf(id) = {} THEN 0 ELSE CHOOSE n \in ParentsOf(id) : TRUE

\* the nearest still-open preceding section with a smaller level: the latest
\* earlier heading of smaller level (every heading after it has a level at
\* least that of the new heading, so none of them closed it), 0 if none
NearestOpenAncestor(id) ==
    LET smaller == {n \in 1..(id - 1) : r_nodes[n].level < r_nodes[id].level}
    IN  IF smaller = {} THEN 0 ELSE CHOOSE n \in smaller : \A m \in smaller : m <= n

\* C12: every heading of level L is attached under the nearest still-open
\* preceding section whose level is below L, and to the top-level list only
\* when there is none; for H1, H3, H2 the H2 section is a subsection of the
\* H1 section.
C12_SkipLevelAttachment ==
    /\ \A id \in SectionIds : ActualParent(id) = NearestOpenAncestor(id)
    /\ (/\ r_pc = "done"
        /\ r_tags = <<Heading(1, "T1"), Heading(3, "T3"), Heading(2, "T2")>>)
       => r_nodes[1].subsections = <<2, 3>> /\ r_sections = <<1>>
----------------------------------------------------------------------------
(* process_file and process_files *)

Files == Get(context, "documentation_files", <<>>)

\* the file cannot be read as markdown
IsFailingInput(file_path) ==
    \/ Suffix(file_path) \in StubExtensions
    \/ Suffix(file_path) \notin SupportedExtensions
    \/ ~FileAt(file_path).is_file
    \/ ~FileAt(file_path).decodes

IsReadableMarkdown(file_path) ==
    /\ FileAt(file_path).is_file
    /\ FileAt(file_path).decodes
    /\ Suffix(file_path) \in MarkdownExtensions

\* C13: no call of process_file raises; it returns None for a stubbed format,
\* an extension outside the table, a path that is no file and a file that
\* cannot be decoded, and it returns a document only for a readable markdown
\* file.
C13_ProcessFileNeverRaises ==
    \A n \in 1..Len(f_calls) :
        LET call == f_calls[n]
        IN  /\ ~call.outcome.raises
            /\ IsFailingInput(call.file_path) => call.outcome.value = PyNone
            /\ call.outcome.value # PyNone =>
                   /\ IsReadableMarkdown(call.file_path)
                   /\ call.outcome.value.file_type = "markdown"
                   /\ call.outcome.value.file_path = call.file_path

\* a .rst file was skipped and the markdown file after it was parsed
C13_Witness ==
    /\ Len(f_calls) = 2
    /\ f_calls[1].file_path = "doc.rst"
    /\ f_calls[1].outcome = Returns(PyNone)
    /\ f_calls[2].file_path = "front.md"
    /\ f_calls[2].outcome.value # PyNone

ProcessFilesReturned == m_pc \in {"linking", "exited"} /\ Files # <<>>

\* the last call of process_file on the path
LastCallOn(file_path) ==
    CHOOSE n \in 1..Len(f_calls) :
        /\ f_calls[n].file_path = file_path
        /\ \A m \in (n + 1)..Len(f_calls) : f_calls[m].file_path # file_path

\* C14: process_files calls process_file on the files in order and none of
\* the calls ends the loop; the keys of its dict are, without repetition,
\* exactly the paths on which process_file produced a document, each mapped
\* to the document of the last call on it; when process_files has returned
\* every file of the list has been processed.
C14_PerFileIsolation ==
    /\ Len(f_calls) = f_index
    /\ \A n \in 1..Len(f_calls) : f_calls[n].file_path = Files[n]
    /\ {processed_docs[n].dict_key : n \in 1..Len(processed_docs)}
         = {f_calls[n].file_path : n \in {m \in 1..Len(f_calls) :
                                            /\ ~f_calls[m].outcome.raises
                                            /\ f_calls[m].outcome.value # PyNone}}
    /\ \A n, m \in 1..Len(processed_docs) :
         processed_docs[n].dict_key = processed_docs[m].dict_key => n = m
    /\ \A n \in 1..Len(processed_docs) :
         processed_docs[n].dict_value
           = f_calls[LastCallOn(processed_docs[n].dict_key)].outcome.value
    /\ ProcessFilesReturned => f_index = Len(Files)

\* a missing file first, a markdown file second: only the second is a key
C14_Witness ==
    /\ ProcessFilesReturned
    /\ Files = <<"nonexistent/file.md", "front.md">>
    /\ Len(processed_docs) = 1
    /\ processed_docs[1].dict_key = "front.md"
----------------------------------------------------------------------------
(* run without documents *)

\* C15: when parsed_documents is empty or missing, run raises (the ValueError
\* of line 54), semantic_linking_completed is False, and neither
\* linked_documents nor semantic_linking_stats is written.
C15_NoDocumentsRaises ==
    (pc # "start" /\ Parsed = <<>>) =>
        /\ pc = "raised"
        /\ "semantic_linking_completed" \in DOMAIN context
        /\ context["semantic_linking_completed"] = FALSE
        /\ "linked_documents" \notin DOMAIN context
        /\ "semantic_linking_stats" \notin DOMAIN context

\* run has raised on a context whose parsed_documents is the empty list
C15_Witness ==
    /\ pc = "raised"
    /\ "parsed_documents" \in DOMAIN context
    /\ context["parsed_documents"] = <<>>
    /\ context["semantic_linking_completed"] = FALSE
----------------------------------------------------------------------------
(* Frontmatter *)

\* the documents process_file has returned, each with the content it read
ParsedCalls == {n \in 1..Len(f_calls) : f_calls[n].outcome.value # PyNone}
DocumentOf(n) == f_calls[n].outcome.value
ContentOf(n) == SanitizeContent(FileAt(f_calls[n].file_path).content)

\* the raw content begins with ---\n ... \n---\n
BeginsWithBlock(content) ==
    /\ Len(content.lines) >= 3
    /\ content.lines[1] = "---"
    /\ \E n \in 3..Len(content.lines) :
         content.lines[n] = "---" /\ (n = Len(content.lines) => content.final_newline)

\* the lines between the opening --- and the first closing one
BlockOf(content) ==
    LET closing == {n \in 3..Len(content.lines) :
                      content.lines[n] = "---"
                      /\ (n = Len(content.lines) => content.final_newline)}
    IN  SubSeq(content.lines, 2, (CHOOSE n \in closing : \A m \in closing : n <= m) - 1)

BlockParses(block) == \A n \in 1..Len(block) : \E y \in YamlPairs : y[1] = block[n]

SectionOf(doc, n) == doc.objects[doc.sections[n]]

\* C16: the metadata of a parsed document holds the key frontmatter exactly
\* when the raw content begins with a --- block and the block parses; with a
\* block that does not parse the document is still produced, with its title,
\* its sections and the other metadata.  For "---\ntitle: X\n---\n# Title\nBody"
\* the frontmatter title is "X" and the first section is titled "Title".
C16_Frontmatter ==
    \A n \in ParsedCalls :
        LET doc == DocumentOf(n)
            content == ContentOf(n)
        IN  /\ "frontmatter" \in DOMAIN doc.metadata
                <=> (BeginsWithBlock(content) /\ BlockParses(BlockOf(content)))
            /\ {"word_count", "char_count", "heading_count", "code_block_count",
                "processed_at"} \subseteq DOMAIN doc.metadata
            /\ f_calls[n].file_path = "badyaml.md" =>
                   /\ "frontmatter" \notin DOMAIN doc.metadata
                   /\ doc.title = "Title"
                   /\ Len(doc.sections) = 1
                   /\ SectionOf(doc, 1).title = "Title"
            /\ f_calls[n].file_path = "front.md" =>
                   /\ content = RawContent(<<"---", "title: X", "---", "# Title", "Body">>,
                                           FALSE)
                   /\ doc.metadata["frontmatter"]["title"] = "X"
                   /\ SectionOf(doc, 1).title = "Title"

\* the example document and the document with the broken block, both parsed
C16_Witness ==
    /\ Len(f_calls) = 2
    /\ f_calls[1].file_path = "front.md"
    /\ "frontmatter" \in DOMAIN DocumentOf(1).metadata
    /\ f_calls[2].file_path = "badyaml.md"
    /\ DocumentOf(2) # PyNone
    /\ "frontmatter" \notin DOMAIN DocumentOf(2).metadata
----------------------------------------------------------------------------
(* Code blocks *)

RECURSIVE JoinLines(_)
JoinLines(lines) ==
    IF lines = <<>> THEN ""
    ELSE IF Len(lines) = 1 THEN lines[1]
    ELSE lines[1] \o "\n" \o JoinLines(Tail(lines))

\* the fenced blocks of the source in order: declared language and body
RECURSIVE FencedBlocks(_, _)
FencedBlocks(lines, n) ==
    IF n > Len(lines) THEN <<>>
    ELSE IF OpensFence(lines, n)
    THEN LET closing == CHOOSE m \in (n + 1)..Len(lines) :
                            /\ lines[m] = FenceClose
                            /\ \A k \in (n + 1)..(m - 1) : lines[k] # FenceClose
         IN  <<[declared |-> FenceLanguage(lines[n]),
                body |-> JoinLines(SubSeq(lines, n + 1, closing - 1))]>>
             \o FencedBlocks(lines, closing + 1)
    ELSE FencedBlocks(lines, n + 1)

\* the entry the block is to be recorded as
ExpectedEntry(block) ==
    [language |-> IF block.declared = "" THEN "text" ELSE block.declared,
     code |-> block.body]

\* C17: every fenced block of a parsed document is recorded, in the
\* code_blocks of a section, with its declared language exactly (python for a
\* block declared python) and its body as code; a block without a declared
\* language is recorded with language "text".
C17_CodeBlockLanguage ==
    \A n \in ParsedCalls :
        LET doc == DocumentOf(n)
            blocks == FencedBlocks(ContentOf(n).lines, 1)
        IN  \A b \in 1..Len(blocks) :
              \E id \in 1..Len(doc.objects) :
                \E k \in 1..Len(doc.objects[id].code_blocks) :
                    doc.objects[id].code_blocks[k] = ExpectedEntry(blocks[b])
----------------------------------------------------------------------------
(* The hierarchy of the test document *)

\* C18: for the test document (headings H1, H2 'Seção 1', H3 'Subseção 1.1',
\* H2 'Seção 2') the top-level sections list holds the section titled
\* 'Seção 1', of level 2, whose first subsection is 'Subseção 1.1' of level 3;
\* sections[0] is the H1 section, of level 1, holding the intro paragraph.
C18_TestHierarchy ==
    \A n \in ParsedCalls :
        f_calls[n].file_path = "test.md" =>
            LET doc == DocumentOf(n)
            IN  /\ SectionOf(doc, 1).title = "Título Principal"
                /\ SectionOf(doc, 1).level = 1
                /\ SectionOf(doc, 1).content = "Este é um parágrafo introdutório.\n"
                /\ \E k \in 1..Len(doc.sections) :
                     /\ SectionOf(doc, k).title = "Seção 1"
                     /\ SectionOf(doc, k).level = 2
                     /\ SectionOf(doc, k).subsections # <<>>
                     /\ doc.objects[SectionOf(doc, k).subsections[1]].title
                            = "Subseção 1.1"
                     /\ doc.objects[SectionOf(doc, k).subsections[1]].level = 3
----------------------------------------------------------------------------
(* The pipeline of main *)

\* parsing has completed with at least one parsed document
ParsingCompleted ==
    /\ "parsing_completed" \in DOMAIN context
    /\ context["parsing_completed"]
    /\ Len(Parsed) >= 1

\* under main none of the steps of run left out of NextPipeline is ever
\* enabled: run is never among the sections of a document nor at the end of
\* its loop
PipelineStopsAtFirstKey ==
    /\ pc \notin {"sections", "done"}
    /\ pc = "loop" => doc_index < total_documents

\* C19: once download and parsing have completed with N >= 1 parsed
\* documents, the semantic-linking stage does not raise, it produces N linked
\* documents and the statistics, and main returns 0.
C19_PipelineCompletes ==
    ParsingCompleted =>
        /\ pc # "raised"
        /\ m_pc = "exited" =>
               /\ exit_status = <<0>>
               /\ "linked_documents" \in DOMAIN context
               /\ Len(context["linked_documents"]) = Len(Parsed)
               /\ "semantic_linking_stats" \in DOMAIN context
----------------------------------------------------------------------------
(* SemanticCache *)

\* get has just been called
JustGot == c_last.called

\* C20: a get of a pair returns the response of the latest set of that pair
\* while the entry is younger than the TTL, in the instance that set it and
\* in every instance constructed later on the same directory; a get of a
\* pair that was never set returns None.
C20_CacheRoundTrip ==
    JustGot =>
        LET latest == c_written[c_last.pair]
        IN  IF ~latest.set THEN c_last.result = PyNone
            ELSE (c_last.instance \in latest.seen /\ latest.at + CacheTtlHours > c_now)
                     => c_last.result = latest.response

JustLoaded == "loaded" \in DOMAIN c_last

\* memory_cache of instance i holds no entry whose timestamp + TTL has passed
NoExpiredEntry(i) ==
    \A key \in DOMAIN c_memory[i] : IsFresh(c_memory[i][key], c_now)

\* C21: get returns a response only from an entry whose timestamp + TTL is
\* in the future, and memory_cache holds no expired entry right after the
\* cache was loaded from disk and right after a call of get.
C21_CacheExpiry ==
    /\ JustGot /\ c_last.result # PyNone =>
          LET cache_key == ComputeHash(c_last.pair[1], c_last.pair[2])
              memory_cache == c_memory[c_last.instance]
          IN  /\ cache_key \in DOMAIN memory_cache
              /\ IsFresh(memory_cache[cache_key], c_now)
              /\ memory_cache[cache_key]["response"] = c_last.result
    /\ JustLoaded => NoExpiredEntry(c_last.loaded)
    /\ JustGot => NoExpiredEntry(c_last.instance)

\* the reducer is about to read a heading
ReadsHeading ==
    /\ r_index' = r_index + 1
    /\ r_tags[r_index + 1].name \in HeadingNames

\* every section that existed before the step is as it was, except that the
\* subsections of section parent (0 for none) have gained the identity id
OnlyGains(parent, id) ==
    \A n \in 1..Len(r_nodes) :
        r_nodes'[n] = IF n = parent
                      THEN [r_nodes[n] EXCEPT !.subsections = Append(@, id)]
                      ELSE r_nodes[n]

HeadingStepRule ==
    ReadsHeading =>
        LET tag == r_tags[r_index + 1]
            L == HeadingLevel(tag.name)
            id == Len(r_nodes) + 1
        IN  /\ Len(r_nodes') = id
            /\ r_nodes'[id] = DocumentSection(tag.text, L)
            /\ r_current' = id
            /\ IF r_current = 0 \/ L <= r_nodes[r_current].level
               THEN r_sections' = Append(r_sections, id) /\ OnlyGains(0, id)
               ELSE r_sections' = r_sections /\ OnlyGains(r_current, id)

\* no section of level 2 is a subsection of a section of level 3
NoLevel2UnderLevel3 ==
    \A id \in SectionIds : \A n \in ParentsOf(id) :
        ~(r_nodes[id].level = 2 /\ r_nodes[n].level = 3)

\* C22: on a heading of level L the new section becomes current; it is
\* appended to the top-level list when there is no current section or
\* L <= current.level, and to current.subsections when L > current.level;
\* a level-2 heading never nests under a previous level-3 section.
C22_ReducerStepRule == [][HeadingStepRule]_vars /\ []NoLevel2UnderLevel3

\* a level-3 section nested under a level-1 section, followed by a level-2
\* heading that went to the top-level list
C22_Witness ==
    \E id \in SectionIds \ {1} :
        /\ r_nodes[id].level = 2
        /\ r_nodes[id - 1].level = 3
        /\ ParentsOf(id - 1) # {}
        /\ Occurrences(r_sections, id) = 1
        /\ r_current = id

\* the stream is a text item, a code item and a text item, nothing else
IsTextCodeText ==
    /\ Len(p_items) = 3
    /\ \A n \in 1..3 : "type" \in DOMAIN p_items[n]
    /\ IsTextItem(p_items[1]) /\ IsCodeItem(p_items[2]) /\ IsTextItem(p_items[3])

\* a code item lies ahead of the item being read
CodeFollows ==
    \E n \in (p_index + 2)..Len(p_items) :
        "type" \in DOMAIN p_items[n] /\ IsCodeItem(p_items[n])

\* the step of the loop emits a group
StartsNewGroup ==
    /\ p_pc = "loop"
    /\ p_index' = p_index + 1
    /\ Len(p_sections') > Len(p_sections)

OneGroupOfTextCodeText ==
    (p_pc = "done" /\ IsTextCodeText) =>
        p_sections = << [text |-> <<p_items[1]["content"], p_items[3]["content"]>>,
                         code |-> <<CodeEntry(p_items[2])>>] >>

NewGroupOnlyBeforeFurtherCode ==
    StartsNewGroup =>
        /\ IsTextItem(NextItem)
        /\ p_current.text # <<>> /\ p_current.code # <<>>
        /\ CodeFollows

(* C23 as stated: a stream text, code, text with no second code item remains
   one group holding both texts and the code; a new group starts only when
   new text arrives after a group that already has both kinds and is
   followed by further code. *)
C23_TextCodeTextOneGroup ==
    []OneGroupOfTextCodeText /\ [][NewGroupOnlyBeforeFurtherCode]_vars

TwoGroupsOfTextCodeText ==
    (p_pc = "done" /\ IsTextCodeText) =>
        p_sections = << [text |-> <<p_items[1]["content"]>>,
                         code |-> <<CodeEntry(p_items[2])>>],
                        [text |-> <<p_items[3]["content"]>>, code |-> <<>>] >>

NewGroupOnEveryTextAfterBoth ==
    (p_pc = "loop" /\ p_pc' = "loop" /\ p_index' = p_index + 1) =>
        (Len(p_sections') > Len(p_sections)
            <=> /\ IsTextItem(NextItem)
                /\ p_current.text # <<>> /\ p_current.code # <<>>)

(* C23 amended: a stream text, code, text comes out as two groups, the first
   holding the first text and the code, the second holding the trailing text
   alone; within the loop a new group starts exactly when a text item
   arrives after a group that already has both kinds, whether or not any
   code follows. *)
C23_TextAfterBothSplits ==
    []TwoGroupsOfTextCodeText /\ [][NewGroupOnEveryTextAfterBoth]_vars

C23_Witness ==
    /\ p_pc = "done"
    /\ p_items = <<TextA, Code1, TextB>>
    /\ Len(p_sections) = 2

\* the reducer is about to read a paragraph or a code block
ReadsContentBlock ==
    /\ r_index' = r_index + 1
    /\ r_tags[r_index + 1].name \notin HeadingNames

ContentBlockRule ==
    ReadsContentBlock =>
        LET tag == r_tags[r_index + 1]
            is_code == tag.name \in {"pre", "code"}
        IN  /\ r_sections' = r_sections
            /\ r_current' = r_current
            /\ Len(r_nodes') = Len(r_nodes)
            /\ \A n \in SectionIds \ {r_current} : r_nodes'[n] = r_nodes[n]
            /\ r_current # 0 =>
                 LET before == r_nodes[r_current]
                     after == r_nodes'[r_current]
                 IN  /\ [after EXCEPT !.content = "", !.code_blocks = <<>>]
                           = [before EXCEPT !.content = "", !.code_blocks = <<>>]
                     /\ IF is_code
                        THEN /\ Len(after.code_blocks) = Len(before.code_blocks) + 1
                             /\ SubSeq(after.code_blocks, 1, Len(before.code_blocks))
                                   = before.code_blocks
                             /\ after.code_blocks[Len(after.code_blocks)].code = tag.text
                             /\ after.content = before.content
                        ELSE /\ after.code_blocks = before.code_blocks
                             /\ after.content =
                                   IF tag.text # "" THEN before.content \o tag.text \o "\n"
                                   ELSE before.content

\* the current section, when there is one, is the most recently created one
CurrentIsLatest == r_current = Len(r_nodes)

\* C24: a paragraph or code block read before any heading creates no section
\* and enters no section; one read after a heading is added only to the
\* current, most recently created, section: a code block to its
\* code_blocks, a non-empty paragraph with a closing newline to its content;
\* every other section and the top-level list stay as they were.
C24_ContentBlockPlacement == [][ContentBlockRule]_vars /\ []CurrentIsLatest

\* content read before the first heading left nothing behind, and a later
\* paragraph and code block went to the nested current section only
C24_Witness ==
    /\ r_pc = "done"
    /\ r_tags = <<Paragraph("para"), Heading(1, "T1"), Paragraph("para"), Pre("body")>>
    /\ Len(r_nodes) = 1
    /\ r_nodes[1].content = "para\n"
    /\ Len(r_nodes[1].code_blocks) = 1

\* the list linked carries, element by element, the text and the code of
\* the partitioned sections parts
CarriesInOrder(linked, parts) ==
    \A k \in 1..Len(linked) :
        /\ k <= Len(parts)
        /\ linked[k]["text"] = parts[k].text
        /\ linked[k]["code"] = parts[k].code

\* the documents process_document has returned for
LinkedDocs == {d \in 1..Len(linked_documents) : d \notin doc_raised}

\* C25: the linked_sections of a processed document has the length of the
\* partitioner's output, its k-th element carries the text and code of the
\* k-th partitioned section (while the document is in progress, of the
\* sections handled so far), and the Reasoning Service calls are issued in
\* that order: document after document, and within a document the call for
\* section k before the call for section k + 1.
C25_LinkingOrder ==
    /\ \A d \in LinkedDocs :
         LET parts == ExtractSections(Parsed[d]).sections
             linked == linked_documents[d]["linked_sections"]
         IN  Len(linked) = Len(parts) /\ CarriesInOrder(linked, parts)
    /\ pc = "sections" =>
         /\ sections = ExtractSections(CurrentDoc).sections
         /\ Len(linked_sections) = section_index
         /\ CarriesInOrder(linked_sections, sections)
    /\ \A m, n \in 1..Len(api_calls) :
         m < n => \/ api_calls[m].doc < api_calls[n].doc
                  \/ /\ api_calls[m].doc = api_calls[n].doc
                     /\ api_calls[m].index < api_calls[n].index

\* a returned run over a document of two different sections, both of them
\* sent to the Reasoning Service
C25_Witness ==
    /\ Returned
    /\ \E d \in LinkedDocs :
         /\ Len(linked_documents[d]["linked_sections"]) = 2
         /\ linked_documents[d]["linked_sections"][1]["text"]
              # linked_documents[d]["linked_sections"][2]["text"]
         /\ Cardinality({n \in 1..Len(api_calls) : api_calls[n].doc = d}) = 2

\* a step leaves the list of input documents, every one of its documents with
\* its content items and metadata, as it was
InputsUntouched ==
    /\ DOMAIN context \subseteq DOMAIN context'
    /\ "parsed_documents" \in DOMAIN context =>
          context'["parsed_documents"] = context["parsed_documents"]

\* a step leaves the linked documents appended so far as they were
LinkedDocumentsKept ==
    /\ Len(linked_documents') >= Len(linked_documents)
    /\ \A d \in 1..Len(linked_documents) : linked_documents'[d] = linked_documents[d]

\* what run publishes is the list it built
PublishedAsBuilt ==
    "linked_documents" \in DOMAIN context => context["linked_documents"] = linked_documents

\* C26: no step of run, of process_document, of the partitioner or of the
\* linker changes an input document of parsed_documents, whether linking
\* succeeds, fails or is skipped, and a linked document is not changed once
\* it has been appended to linked_documents.
C26_InputImmutability ==
    [][InputsUntouched /\ LinkedDocumentsKept]_vars /\ []PublishedAsBuilt

\* a returned run in which one document raised, another was linked, and a
\* Reasoning Service call failed
C26_Witness ==
    /\ Returned
    /\ doc_raised # {}
    /\ LinkedDocs # {}
    /\ \E n \in 1..Len(api_calls) : api_calls[n].raised
    /\ \E n \in 1..Len(api_calls) : ~api_calls[n].raised

\* the Reasoning Service calls made for document d
CallsOf(d) == {n \in 1..Len(api_calls) : api_calls[n].doc = d}

\* the partitioned sections of document d, none if the partitioner raised
PartitionOf(d) == ExtractSections(Parsed[d]).sections

\* the sections of document d with non-empty text and non-empty code
EligibleSections(d) ==
    {k \in 1..Len(PartitionOf(d)) :
        PartitionOf(d)[k].text # <<>> /\ PartitionOf(d)[k].code # <<>>}

\* the documents run is through with
FinishedDocs == 1..Len(linked_documents)

NoCallTwice ==
    \A m, n \in 1..Len(api_calls) :
        (api_calls[m].doc = api_calls[n].doc /\ api_calls[m].index = api_calls[n].index)
            => m = n

(* C27 as stated: for every document the number of Reasoning Service calls
   equals the number of its partitioned sections with non-empty text and
   non-empty code, one call per such section, none repeated. *)
C27_CallCount ==
    /\ \A d \in FinishedDocs : Cardinality(CallsOf(d)) = Cardinality(EligibleSections(d))
    /\ NoCallTwice

(* C27 amended: for every document process_document returned for, the calls
   are exactly one per partitioned section with non-empty text and
   non-empty code; for a document whose processing raised, the calls are
   one per such section among those reached before the exception, so fewer
   than the number of such sections.  A failed call is not retried and no
   section is called for twice. *)
C27_CallCountOfProcessed ==
    /\ \A d \in FinishedDocs :
         /\ {api_calls[n].index : n \in CallsOf(d)} \subseteq EligibleSections(d)
         /\ d \in LinkedDocs =>
              {api_calls[n].index : n \in CallsOf(d)} = EligibleSections(d)
         /\ (d \in doc_raised /\ EligibleSections(d) # {}) =>
              Cardinality(CallsOf(d)) < Cardinality(EligibleSections(d))
    /\ NoCallTwice

\* a linked document with a text-only section that was skipped and a section
\* whose single call failed, and a document that raised after one call
C27_Witness ==
    /\ Returned
    /\ \E d \in LinkedDocs :
         /\ Len(PartitionOf(d)) = 2
         /\ Cardinality(EligibleSections(d)) = 1
         /\ \E n \in CallsOf(d) : api_calls[n].raised
    /\ \E d \in doc_raised : Cardinality(CallsOf(d)) = 1

\* the code_blocks entries of a parsed document: section and position
EntriesOf(doc) ==
    UNION {{<<id, k>> : k \in 1..Len(doc.objects[id].code_blocks)} :
           id \in 1..Len(doc.objects)}

\* the first heading line of the source, past its end when there is none
FirstHeadingLine(lines) ==
    LET headings == {n \in 1..Len(lines) : IsHeadingLine(lines[n])}
    IN  IF headings = {} THEN Len(lines) + 1
        ELSE CHOOSE n \in headings : \A m \in headings : n <= m

\* the fenced blocks of the source that follow a heading
HousedBlocks(content) == FencedBlocks(content.lines, FirstHeadingLine(content.lines) + 1)

\* C28: every code block of the source that follows a heading is recorded as
\* exactly one entry of exactly one section's code_blocks, and the sections
\* hold no other entries: no block is recorded twice (once for its pre
\* element and once for the code element inside it).
C28_OneHomePerBlock ==
    \A n \in ParsedCalls :
        LET doc == DocumentOf(n)
            blocks == HousedBlocks(ContentOf(n))
        IN  /\ \A b \in 1..Len(blocks) :
                 Cardinality({e \in EntriesOf(doc) :
                     doc.objects[e[1]].code_blocks[e[2]].code = blocks[b].body}) = 1
            /\ Cardinality(EntriesOf(doc)) = Len(blocks)

----------------------------------------------------------------------------
(* The snapshot history *)

SnapshotIds == {v_versions.snapshots[n].id : n \in 1..Len(v_versions.snapshots)}

HistoryBounded == Len(v_versions.snapshots) <= v_max

CurrentIsPresent ==
    v_versions.current_version = NoneValue \/ v_versions.current_version \in SnapshotIds

\* a create_snapshot that recorded a snapshot leaves the newest entries of
\* the old list followed by the new snapshot: what went, went from the front
OldestEvictedFirst ==
    (v_creates' = v_creates + 1 /\ ~v_last'.raised) =>
        LET appended == Append(v_versions.snapshots, Snapshot(v_now, "backup"))
            kept == v_versions'.snapshots
        IN  /\ Len(kept) = IF Len(appended) > v_max THEN v_max ELSE Len(appended)
            /\ kept = SubSeq(appended, Len(appended) - Len(kept) + 1, Len(appended))

\* the call just made was a rollback that was a dry run or named an id that
\* no snapshot of the list had
DryOrUnknownRollback ==
    /\ v_last'.op = "rollback"
    /\ \/ v_last'.dry_run
       \/ v_last'.version_id # NoneValue /\ v_last'.version_id \notin SnapshotIds

RollbackFrame == DryOrUnknownRollback => v_versions' = v_versions

\* C29: with max_versions >= 1, after any sequence of create_snapshot and
\* rollback calls the snapshots list has at most max_versions entries, the
\* oldest having been evicted first; current_version is None or the id of a
\* snapshot in the list; a rollback with dry_run=True or with an unknown
\* version id leaves current_version and snapshots as they were.
C29_SnapshotHistory ==
    /\ [](HistoryBounded /\ CurrentIsPresent)
    /\ [][OldestEvictedFirst /\ RollbackFrame]_vars

\* the history is full after an eviction, and a rollback has moved the
\* current version off the newest snapshot
C29_Witness ==
    /\ v_creates > v_max
    /\ Len(v_versions.snapshots) = v_max
    /\ v_max >= 2
    /\ v_versions.current_version # v_versions.snapshots[Len(v_versions.snapshots)].id
    /\ v_last.op = "rollback" /\ v_last.success /\ ~v_last.dry_run

----------------------------------------------------------------------------
(* Termination of the batch *)

\* run has been given a non-empty list of documents and has not begun
GivenDocuments == pc = "start" /\ ~NoParsedDocuments(context)

\* run has returned, completed, with one linked document per input document
BatchReturned ==
    /\ Returned
    /\ context["semantic_linking_completed"] = TRUE
    /\ doc_index = Len(Parsed)
    /\ Len(linked_documents) = Len(Parsed)
    /\ context["linked_documents"] = linked_documents

\* every call was made for a section of a document of the list
CallsWithinBatch ==
    \A n \in 1..Len(api_calls) :
        /\ api_calls[n].doc \in 1..Len(Parsed)
        /\ api_calls[n].index \in 1..Len(PartitionOf(api_calls[n].doc))

\* C30: given a finite, non-empty list of documents, and given that every
\* Reasoning Service call returns or raises, run eventually returns with
\* semantic_linking_completed True, one linked document per input document
\* in order; every call is for a section of a document of the list, and no
\* call is made once run has returned.
C30_BatchTerminates ==
    /\ GivenDocuments ~> BatchReturned
    /\ []CallsWithinBatch
    /\ [][Returned => api_calls' = api_calls]_vars

\* a returned batch of the largest size, in which calls were made for the
\* first and for the last document
C30_Witness ==
    /\ BatchReturned
    /\ Len(Parsed) = MaxDocs
    /\ \E n \in 1..Len(api_calls) : api_calls[n].doc = 1
    /\ \E n \in 1..Len(api_calls) : api_calls[n].doc = MaxDocs

====
